---------------------------- MODULE Spec2Model ----------------------------
(***************************************************************************)
(* POSWS: offline-first point of sale.  Model of the local stores, the     *)
(* sync outbox and sync cycle, the pull merge, the cart and the checkout   *)
(* of src/unnamed/part_000 (first revision in the file, lines 1-3385),     *)
(* at the granularity of its await points.  deleteTransaction, which that  *)
(* revision does not have, is modelled from lines 4790-4841.               *)
(*                                                                         *)
(* A store operation takes effect when it is issued (IndexedDB orders the  *)
(* transactions of one store by creation), the handler that awaits it      *)
(* resumes in a later step.  Money is in whole rupiah; the prices of the   *)
(* model are multiples of 10000 so that every percentage is exact.         *)
(***************************************************************************)
EXTENDS Integers, Sequences, FiniteSets, TLC

---------------------------------------------------------------------------
(* Bounds of the model *)

MaxClock == 4
MaxQueueKey == 3
MaxTransactions == 1
MaxStock == 2
MaxCycles == 2
MaxDelta == 2

(* Program constants *)

ServerCat201 == 201
SchemaVersion == 7
PercentBase == 100

(* Absent values: a field that is undefined / null in the program *)
None == 0

(* Cash entered in the payment dialog *)
CashInputs == {0, 100000}
CashTendered == CHOOSE cash \in CashInputs : cash > 0

---------------------------------------------------------------------------
(* Generic helpers *)

RECURSIVE SumSeq(_)
SumSeq(s) == IF s = <<>> THEN 0 ELSE Head(s) + SumSeq(Tail(s))

---------------------------------------------------------------------------
(* The object stores.  A store is the set of its records, each with its    *)
(* primary key in field id; keyGen is the autoIncrement key generator of   *)
(* each store, which neither delete nor clear resets.                      *)

VARIABLES products, categories, transactions, fees, sync_queue, lastSync, keyGen

(* In-memory state of the page *)
VARIABLES cart, isOnline, isSyncing, mockServerData, now

(* Handlers suspended at an await *)
VARIABLES addOp, checkout, stockOp, feeOp, cycles, dataOp

(* History of the current sync cycle and of the remote calls *)
VARIABLES cyc, acked

(* Pull merge applied to drawn inputs *)
VARIABLES mergeRun

(* The payment dialog: whether it is shown, whether its complete button   *)
(* is disabled, and the number its cash field parses to                    *)
VARIABLES paymentModal

(* The suspended deleteTransaction handler of the report page *)
VARIABLES deleteOp

(* The suspended addFee or deleteFee handler of the settings page *)
VARIABLES feeEdit

(* A second addToCart in flight, and the applyDefaultFees that clearCart    *)
(* starts and does not await                                               *)
VARIABLES addOp2, clearOp

(* The suspended addProduct, updateProduct and deleteCategory handlers *)
VARIABLES catalogOp

(* The settings store (lastSync apart) and the version the database has on *)
(* disk when the page opens it                                             *)
VARIABLES settings, oldVersion

(* initDB: the open request, the object stores and indexes of the          *)
(* database, the migration steps its upgrade handler ran and the requests  *)
(* of the upgrade transaction that have not been answered                  *)
VARIABLES upgrade

stores == <<products, categories, transactions, fees, sync_queue, lastSync, keyGen>>
memory == <<cart, isOnline, isSyncing, mockServerData, now>>
handlers == <<addOp, checkout, stockOp, feeOp, cycles, dataOp>>
history == <<cyc, acked>>
cartOps == <<addOp2, clearOp>>
schema == <<settings, oldVersion, upgrade>>
otherOps == <<cartOps, catalogOp, schema>>
pageOps == <<deleteOp, feeEdit, otherOps>>
modals == <<paymentModal, pageOps>>
vars == <<stores, memory, handlers, history, mergeRun, modals>>

Has(store, key) == \E r \in store : r.id = key

Get(store, key) == CHOOSE r \in store : r.id = key

(* store.put(value): insert or replace by primary key *)
Put(store, value) == {r \in store : r.id # value.id} \cup {value}

Delete(store, key) == {r \in store : r.id # key}

(* store.getAll(): the records in ascending key order *)
GetAll(store) ==
    [i \in 1..Cardinality(store) |->
        CHOOSE r \in store : Cardinality({q \in store : q.id < r.id}) = i - 1]

NoRecord == [id |-> None]

Lookup(store, key) == IF Has(store, key) THEN Get(store, key) ELSE NoRecord

Exists(rec) == rec.id # None

---------------------------------------------------------------------------
(* Records *)

Product(id, name, price, disc, stock, barcode, serverId, updatedAt) ==
    [id |-> id, name |-> name, price |-> price, discountPercentage |-> disc,
     stock |-> stock, barcode |-> barcode, serverId |-> serverId,
     updatedAt |-> updatedAt, category |-> ""]

Category(id, name, serverId, updatedAt) ==
    [id |-> id, name |-> name, serverId |-> serverId, updatedAt |-> updatedAt]

Fee(id, type, value, isDefault) ==
    [id |-> id, type |-> type, value |-> value, isDefault |-> isDefault]

SyncQueueEntry(id, action, payloadId) ==
    [id |-> id, action |-> action, payloadId |-> payloadId]

EmptyCart == [items |-> <<>>, fees |-> <<>>]

---------------------------------------------------------------------------
(* Cart totals as the cart display computes them *)

CartSubtotal(c) ==
    SumSeq([i \in 1..Len(c.items) |-> c.items[i].effectivePrice * c.items[i].quantity])

CartFeeAmount(fee, subtotal) ==
    IF fee.type = "percentage" THEN (subtotal * fee.value) \div PercentBase
    ELSE fee.value

CartTotal(c) ==
    CartSubtotal(c)
      + SumSeq([i \in 1..Len(c.fees) |-> CartFeeAmount(c.fees[i], CartSubtotal(c))])

(* Totals as completeTransaction computes them *)

(* the subtotal is taken on the prices after discount *)
TxSubtotalNet(c) ==
    SumSeq([i \in 1..Len(c.items) |-> c.items[i].effectivePrice * c.items[i].quantity])

TxSubtotal(c) ==
    SumSeq([i \in 1..Len(c.items) |-> c.items[i].price * c.items[i].quantity])

TxTotalDiscount(c) ==
    SumSeq([i \in 1..Len(c.items) |->
        ((c.items[i].price * c.items[i].discountPercentage) \div PercentBase)
            * c.items[i].quantity])

TxFeeAmount(fee, subtotalAfterDiscount) ==
    IF fee.type = "percentage"
    THEN (subtotalAfterDiscount * fee.value) \div PercentBase
    ELSE fee.value

(* the percentage fees are taken on the subtotal before discount *)
TxCalculatedFeesOnGross(c) ==
    [i \in 1..Len(c.fees) |->
        [id |-> c.fees[i].id, type |-> c.fees[i].type, value |-> c.fees[i].value,
         isDefault |-> c.fees[i].isDefault,
         amount |-> TxFeeAmount(c.fees[i], TxSubtotal(c))]]

TxCalculatedFees(c) ==
    [i \in 1..Len(c.fees) |->
        [id |-> c.fees[i].id, type |-> c.fees[i].type, value |-> c.fees[i].value,
         isDefault |-> c.fees[i].isDefault,
         amount |-> TxFeeAmount(c.fees[i], TxSubtotal(c) - TxTotalDiscount(c))]]

FeeAmounts(fs) == SumSeq([i \in 1..Len(fs) |-> fs[i].amount])

TxTotalNoDiscount(subtotal, totalDiscount, totalFeeAmount) ==
    subtotal + totalFeeAmount

TxTotal(subtotal, totalDiscount, totalFeeAmount) ==
    (subtotal - totalDiscount) + totalFeeAmount

(* The transaction object completeTransaction builds from the cart *)
BuildTransaction(c, cashPaid, date) ==
    [id |-> None,
     items |-> [i \in 1..Len(c.items) |->
                  [id |-> c.items[i].id, quantity |-> c.items[i].quantity,
                   price |-> c.items[i].price,
                   effectivePrice |-> c.items[i].effectivePrice,
                   discountPercentage |-> c.items[i].discountPercentage]],
     subtotal |-> TxSubtotal(c),
     totalDiscount |-> TxTotalDiscount(c),
     fees |-> TxCalculatedFees(c),
     total |-> TxTotal(TxSubtotal(c), TxTotalDiscount(c),
                       FeeAmounts(TxCalculatedFees(c))),
     cashPaid |-> cashPaid,
     change |-> cashPaid - TxTotal(TxSubtotal(c), TxTotalDiscount(c),
                                   FeeAmounts(TxCalculatedFees(c))),
     date |-> date,
     serverId |-> None]

---------------------------------------------------------------------------
(* Suspended handlers, idle *)

IdleAdd == [pc |-> "idle", productId |-> None, product |-> NoRecord]

IdleCheckout ==
    [pc |-> "idle", outcome |-> "none", txn |-> NoRecord, idx |-> 0,
     product |-> NoRecord, written |-> {}, displayTotal |-> 0,
     cartBefore |-> EmptyCart, queuedBefore |-> 0]

IdleFeeEdit == [pc |-> "idle", fee |-> NoRecord]

IdleDeleteOp == [pc |-> "idle", outcome |-> "none", txn |-> NoRecord]

IdleStockOp == [pc |-> "idle", kind |-> "none", product |-> NoRecord, queued |-> None]

IdleFeeOp == [pc |-> "idle", allFees |-> <<>>, selected |-> {}]

NoUpdates ==
    [products |-> <<>>, categories |-> <<>>,
     deleted |-> [products |-> <<>>, categories |-> <<>>]]

IdleCycle ==
    [pc |-> "idle", syncQueue |-> <<>>, idx |-> 0, serverId |-> None,
     item |-> NoRecord, lastSync |-> None, serverUpdates |-> NoUpdates,
     localProducts |-> <<>>, localCategories |-> <<>>]

IdleDataOp == [pc |-> "idle", data |-> "none", reloaded |-> FALSE]

(* addProduct, updateProduct and deleteCategory: the record the handler    *)
(* works on and the products it has read                                   *)
IdleCatalog ==
    [h \in {"addProduct", "updateProduct", "deleteCategory"} |->
        [pc |-> "idle", rec |-> NoRecord, products |-> <<>>]]

NewCyc ==
    [pushFailed |-> FALSE, pulled |-> FALSE, mergeAborted |-> FALSE,
     finalized |-> FALSE, writtenBack |-> {}, fetchedAt |-> None]

---------------------------------------------------------------------------
(* syncWithServer, from the call to its first await *)

CycleIds == 1..MaxCycles

Running == {c \in CycleIds : cycles[c].pc # "idle"}

HasFreeCycle == \E c \in CycleIds : cycles[c].pc = "idle"

FreeCycle ==
    CHOOSE c \in CycleIds :
        cycles[c].pc = "idle" /\ \A d \in CycleIds : d < c => cycles[d].pc # "idle"

SyncGuardIgnoresBusy(online, syncing) == ~online

(* the two early returns of syncWithServer *)
SyncGuardBlocks(online, syncing) == ~online \/ syncing

(* A call of syncWithServer made when isOnline has the value online: it    *)
(* returns at once, or sets the busy flag and issues the read of the queue *)
SyncWithServer(online) ==
    /\ IF SyncGuardBlocks(online, isSyncing) \/ ~HasFreeCycle
       THEN UNCHANGED <<isSyncing, cycles, cyc>>
       ELSE /\ isSyncing' = TRUE
            /\ cycles' = [cycles EXCEPT ![FreeCycle] =
                             [IdleCycle EXCEPT !.pc = "w_getQueue",
                                               !.syncQueue = GetAll(sync_queue')]]
            /\ cyc' = NewCyc

(* queueSyncAction: the put into sync_queue *)
CanEnqueue == keyGen.sync_queue < MaxQueueKey

(* the put is not made and the entry is gone *)
QueuePutLost(action, payloadId) ==
    /\ CanEnqueue
    /\ UNCHANGED sync_queue
    /\ keyGen' = [keyGen EXCEPT !.sync_queue = @ + 1]

QueuePut(action, payloadId) ==
    /\ CanEnqueue
    /\ sync_queue' = sync_queue \cup
          {SyncQueueEntry(keyGen.sync_queue + 1, action, payloadId)}
    /\ keyGen' = [keyGen EXCEPT !.sync_queue = @ + 1]

(* queueSyncAction after its put resolved: sync at once when online *)
QueueTrigger ==
    IF isOnline THEN SyncWithServer(isOnline)
    ELSE UNCHANGED <<isSyncing, cycles, cyc>>

---------------------------------------------------------------------------
(* Cart *)

ProductKeys == {r.id : r \in products}

CartIndex(pid) ==
    IF \E i \in 1..Len(cart.items) : cart.items[i].id = pid
    THEN CHOOSE i \in 1..Len(cart.items) : cart.items[i].id = pid
    ELSE 0

EffectivePrice(product) ==
    IF product.discountPercentage > 0
    THEN (product.price * (PercentBase - product.discountPercentage)) \div PercentBase
    ELSE product.price

LineItem(product) ==
    [id |-> product.id, price |-> product.price,
     effectivePrice |-> EffectivePrice(product),
     discountPercentage |-> product.discountPercentage,
     quantity |-> 1, stock |-> product.stock]

(* addToCart: the read of the product is issued *)
addToCart(pid) ==
    /\ addOp.pc = "idle"
    /\ checkout.pc = "idle"
    /\ feeOp.pc = "idle"
    /\ addOp' = [pc |-> "w_get", productId |-> pid, product |-> Lookup(products, pid)]
    /\ UNCHANGED <<stores, memory, checkout, stockOp, feeOp, cycles, dataOp,
                   history, mergeRun, modals>>

(* a new line is pushed whether or not the cart holds the product *)
CartAfterAddPushes(c, pid, product) ==
    IF ~Exists(product) \/ product.stock = 0 THEN c
    ELSE [c EXCEPT !.items = Append(@, LineItem(product))]

(* the quantity is raised without a look at the stock *)
CartAfterAddNoLimit(c, pid, product) ==
    LET held == {i \in 1..Len(c.items) : c.items[i].id = pid}
    IN  IF held # {}
        THEN [c EXCEPT !.items[CHOOSE i \in held : TRUE].quantity = @ + 1]
        ELSE [c EXCEPT !.items = Append(@, LineItem(product))]

(* addToCart after its await: the cart it leaves, given the product it     *)
(* read.  The cart is looked at now, not when the call was made.           *)
CartAfterAdd(c, pid, product) ==
    LET held == {i \in 1..Len(c.items) : c.items[i].id = pid}
    IN  IF ~Exists(product) \/ product.stock = 0
        THEN c
        ELSE IF held # {}
             THEN LET i == CHOOSE j \in held : \A k \in held : j <= k
                  IN  IF c.items[i].quantity < product.stock
                      THEN [c EXCEPT !.items[i].quantity = @ + 1]
                      ELSE c
             ELSE [c EXCEPT !.items = Append(@, LineItem(product))]

(* addToCart resumes with the product it read *)
addToCartResume ==
    /\ addOp.pc = "w_get"
    /\ cart' = CartAfterAdd(cart, addOp.productId, addOp.product)
    /\ addOp' = IdleAdd
    /\ UNCHANGED <<stores, isOnline, isSyncing, mockServerData, now, checkout,
                   stockOp, feeOp, cycles, dataOp, history,
                   mergeRun, modals>>

(* addToCart called again while a call is waiting for its product *)
addToCartAgain(pid) ==
    /\ addOp.pc = "w_get"
    /\ addOp2.pc = "idle"
    /\ checkout.pc = "idle"
    /\ addOp2' = [pc |-> "w_get", productId |-> pid, product |-> Lookup(products, pid)]
    /\ UNCHANGED <<stores, memory, handlers, history, mergeRun, paymentModal,
                   deleteOp, feeEdit, clearOp, catalogOp, schema>>

(* ... and resumes, before or after the call it overlapped *)
addToCartAgainResume ==
    /\ addOp2.pc = "w_get"
    /\ cart' = CartAfterAdd(cart, addOp2.productId, addOp2.product)
    /\ addOp2' = IdleAdd
    /\ UNCHANGED <<stores, isOnline, isSyncing, mockServerData, now, handlers,
                   history, mergeRun, paymentModal, deleteOp, feeEdit, clearOp,
                   catalogOp, schema>>

updateCartItemQuantity(pid, change) ==
    /\ checkout.pc = "idle"
    /\ addOp.pc = "idle"
    /\ feeOp.pc = "idle"
    /\ CartIndex(pid) # 0
    /\ LET i == CartIndex(pid)
           item == cart.items[i]
           newQuantity == item.quantity + change
       IN  IF newQuantity > 0 /\ newQuantity <= item.stock
           THEN cart' = [cart EXCEPT !.items[i].quantity = newQuantity]
           ELSE IF newQuantity > item.stock
                THEN UNCHANGED cart
                ELSE cart' = [cart EXCEPT !.items =
                                 SelectSeq(@, LAMBDA it : it.id # pid)]
    /\ UNCHANGED <<stores, isOnline, isSyncing, mockServerData, now, handlers,
                   history, mergeRun, modals>>

(* applySelectedFees: the read of the fee store is issued *)
applySelectedFees(sel) ==
    /\ feeOp.pc = "idle"
    /\ checkout.pc = "idle"
    /\ addOp.pc = "idle"
    /\ feeOp' = [pc |-> "w_selected", allFees |-> GetAll(fees), selected |-> sel]
    /\ UNCHANGED <<stores, memory, addOp, checkout, stockOp, cycles, dataOp,
                   history, mergeRun, modals>>

(* applyDefaultFees puts every fee into the cart, default or not *)
EveryFee(allFees) == allFees

(* allFees.filter(fee => fee.isDefault) *)
DefaultFees(allFees) == SelectSeq(allFees, LAMBDA f : f.isDefault)

(* applySelectedFees / applyDefaultFees resume with the fees they read *)
feeOpResume ==
    /\ feeOp.pc \in {"w_selected", "w_default"}
    /\ cart' = [cart EXCEPT !.fees =
                  IF feeOp.pc = "w_selected"
                  THEN SelectSeq(feeOp.allFees, LAMBDA f : f.id \in feeOp.selected)
                  ELSE DefaultFees(feeOp.allFees)]
    /\ feeOp' = IdleFeeOp
    /\ UNCHANGED <<stores, isOnline, isSyncing, mockServerData, now, addOp,
                   checkout, stockOp, cycles, dataOp, history,
                   mergeRun, modals>>

(* clearCart, confirmed: the items are dropped and applyDefaultFees issues *)
(* its read of the fee store; the handler does not wait for it             *)
clearCart ==
    /\ cart.items # <<>>
    /\ checkout.pc = "idle"
    /\ clearOp.pc = "idle"
    /\ cart' = [cart EXCEPT !.items = <<>>]
    /\ clearOp' = [pc |-> "w_default", allFees |-> GetAll(fees), selected |-> {}]
    /\ UNCHANGED <<stores, isOnline, isSyncing, mockServerData, now, handlers,
                   history, mergeRun, paymentModal, deleteOp, feeEdit, addOp2,
                   catalogOp, schema>>

(* ... the fees that applyDefaultFees read are not assigned *)
clearCartFeesKept ==
    /\ clearOp.pc = "w_default"
    /\ clearOp' = IdleFeeOp
    /\ UNCHANGED <<stores, memory, handlers, history, mergeRun, paymentModal,
                   deleteOp, feeEdit, addOp2, catalogOp, schema>>

(* ... applyDefaultFees resumes with the fees it read *)
clearCartFees ==
    /\ clearOp.pc = "w_default"
    /\ cart' = [cart EXCEPT !.fees = DefaultFees(clearOp.allFees)]
    /\ clearOp' = IdleFeeOp
    /\ UNCHANGED <<stores, isOnline, isSyncing, mockServerData, now, handlers,
                   history, mergeRun, paymentModal, deleteOp, feeEdit, addOp2,
                   catalogOp, schema>>

(* step 1 left out: no fee of the cart is kept *)
KeptNone(cartFees, allFees) == <<>>

(* step 1 of reconcileCartFees: the cart's fees that are in the fee store, *)
(* in the cart's order, as the store holds them                            *)
KeptFees(cartFees, allFees) ==
    LET inStore(f) == \E j \in 1..Len(allFees) : allFees[j].id = f.id
        kept == SelectSeq(cartFees, inStore)
    IN  [i \in 1..Len(kept) |->
            allFees[CHOOSE j \in 1..Len(allFees) : allFees[j].id = kept[i].id]]

(* step 2 without the look at addedFeeIds: every default fee is added *)
AllDefaults(kept, allFees) == SelectSeq(allFees, LAMBDA f : f.isDefault)

(* step 2: the default fees of the store that step 1 has not added *)
MissingDefaults(kept, allFees) ==
    SelectSeq(allFees, LAMBDA f : f.isDefault
                                  /\ \A i \in 1..Len(kept) : kept[i].id # f.id)

Reconcile(cartFees, allFees) ==
    KeptFees(cartFees, allFees) \o MissingDefaults(KeptFees(cartFees, allFees), allFees)

(* showPage('kasir'): reconcileCartFees issues its read of the fee store *)
reconcileCartFees ==
    /\ feeOp.pc = "idle"
    /\ checkout.pc = "idle"
    /\ feeOp' = [pc |-> "w_reconcile", allFees |-> GetAll(fees), selected |-> {}]
    /\ UNCHANGED <<stores, memory, addOp, checkout, stockOp, cycles, dataOp,
                   history, mergeRun, modals>>

(* ... resumes with the fees it read and replaces the cart's fee list *)
reconcileResume ==
    /\ feeOp.pc = "w_reconcile"
    /\ cart' = [cart EXCEPT !.fees = Reconcile(cart.fees, feeOp.allFees)]
    /\ feeOp' = IdleFeeOp
    /\ UNCHANGED <<stores, isOnline, isSyncing, mockServerData, now, addOp,
                   checkout, stockOp, cycles, dataOp, history,
                   mergeRun, modals>>

---------------------------------------------------------------------------
(* The fee list of the settings page *)

(* a readonly transaction on the fee store is open: its getAll request    *)
(* has not resumed its handler.  A readwrite transaction on the store that *)
(* is created meanwhile starts only when that one has finished             *)
FeesReadPending == feeOp.pc # "idle" \/ clearOp.pc # "idle"

(* addFee: the new fee is put into the fee store *)
addFee(type, value, isDefault) ==
    /\ feeEdit.pc = "idle"
    /\ ~FeesReadPending
    /\ CanEnqueue
    /\ LET addedId == keyGen.fees + 1
       IN  /\ fees' = Put(fees, Fee(addedId, type, value, isDefault))
           /\ keyGen' = [keyGen EXCEPT !.fees = addedId]
           /\ feeEdit' = [pc |-> "w_put", fee |-> Fee(addedId, type, value, isDefault)]
    /\ UNCHANGED <<products, categories, transactions, sync_queue, lastSync,
                   memory, handlers, history, mergeRun, paymentModal, deleteOp, otherOps>>

(* deleteFee, confirmed: the read of the fee is issued *)
deleteFee(id) ==
    /\ feeEdit.pc = "idle"
    /\ CanEnqueue
    /\ feeEdit' = [pc |-> "w_get", fee |-> Lookup(fees, id)]
    /\ UNCHANGED <<stores, memory, handlers, history, mergeRun, paymentModal,
                   deleteOp, otherOps>>

(* ... resumes with the fee: delete(id) in a transaction of its own *)
deleteFeeDelete ==
    /\ feeEdit.pc = "w_get"
    /\ ~FeesReadPending
    /\ fees' = Delete(fees, feeEdit.fee.id)
    /\ feeEdit' = [feeEdit EXCEPT !.pc = "w_delete"]
    /\ UNCHANGED <<products, categories, transactions, sync_queue, lastSync, keyGen,
                   memory, handlers, history, mergeRun, paymentModal, deleteOp, otherOps>>

(* ... the put resolved, or the delete completed: queueSyncAction *)
feeEditQueue ==
    /\ feeEdit.pc \in {"w_put", "w_delete"}
    /\ QueuePut(IF feeEdit.pc = "w_put" THEN "CREATE_FEE" ELSE "DELETE_FEE",
                feeEdit.fee.id)
    /\ feeEdit' = [feeEdit EXCEPT !.pc = "w_queue"]
    /\ UNCHANGED <<products, categories, transactions, fees, lastSync, memory,
                   handlers, history, mergeRun, paymentModal, deleteOp, otherOps>>

(* ... the queue put resolved: sync if online, and the handler is done *)
feeEditDone ==
    /\ feeEdit.pc = "w_queue"
    /\ UNCHANGED stores
    /\ QueueTrigger
    /\ feeEdit' = IdleFeeEdit
    /\ UNCHANGED <<cart, isOnline, mockServerData, now, addOp, checkout, stockOp,
                   feeOp, dataOp, acked, mergeRun, paymentModal, deleteOp, otherOps>>

---------------------------------------------------------------------------
(* Checkout *)

(* completeTransaction: totals, the transaction object, and the put of it  *)
(* into the transactions store; a run persists at most limit transactions  *)
completeTransactionUpTo(limit, cashPaid) ==
    /\ checkout.pc = "idle"
    /\ addOp.pc = "idle"
    /\ feeOp.pc = "idle"
    /\ keyGen.transactions < limit
    /\ keyGen.sync_queue + Len(cart.items) < MaxQueueKey
    /\ LET addedId == keyGen.transactions + 1
           transaction == [BuildTransaction(cart, cashPaid, now) EXCEPT !.id = addedId]
       IN  /\ transactions' = Put(transactions, transaction)
           /\ keyGen' = [keyGen EXCEPT !.transactions = addedId]
           /\ checkout' = [IdleCheckout EXCEPT !.pc = "w_putTx", !.txn = transaction,
                                               !.displayTotal = CartTotal(cart),
                                               !.cartBefore = cart,
                                               !.queuedBefore = keyGen.sync_queue]
    /\ paymentModal' = [paymentModal EXCEPT !.disabled = TRUE]
    /\ UNCHANGED <<products, categories, fees, sync_queue, lastSync, memory, addOp,
                   stockOp, feeOp, cycles, dataOp, history,
                   mergeRun, pageOps>>

completeTransaction(cashPaid) == completeTransactionUpTo(MaxTransactions, cashPaid)

(* ... resumes: queueSyncAction('CREATE_TRANSACTION') issues its put *)
checkoutQueueTransaction ==
    /\ checkout.pc = "w_putTx"
    /\ QueuePut("CREATE_TRANSACTION", checkout.txn.id)
    /\ checkout' = [checkout EXCEPT !.pc = "w_queueTx"]
    /\ UNCHANGED <<products, categories, transactions, fees, lastSync, memory,
                   addOp, stockOp, feeOp, cycles, dataOp, history,
                   mergeRun, modals>>

(* The payment dialog when the page has loaded: hidden, its cash field     *)
(* empty; the complete button starts disabled                              *)
ClosedPayment == [open |-> FALSE, disabled |-> TRUE, cash |-> 0]

(* showPaymentModal: refused on an empty cart; otherwise the dialog is     *)
(* shown and the cash field is emptied, with no input event dispatched     *)
showPaymentModal ==
    /\ ~paymentModal.open
    /\ checkout.pc = "idle"
    /\ stockOp.pc = "idle"
    /\ cart.items # <<>>
    /\ paymentModal' = [paymentModal EXCEPT !.open = TRUE, !.cash = 0]
    /\ UNCHANGED <<stores, memory, handlers, history, mergeRun, pageOps>>

closePaymentModal ==
    /\ paymentModal.open
    /\ checkout.pc = "idle"
    /\ paymentModal' = [paymentModal EXCEPT !.open = FALSE]
    /\ UNCHANGED <<stores, memory, handlers, history, mergeRun, pageOps>>

(* the button is disabled when the change would be negative *)
ChangeNegative(cashPaid, total) == cashPaid - total < 0

(* the cash field's input listener (typing, or handleQuickCash) *)
cashPaidInput(cashPaid) ==
    /\ paymentModal.open
    /\ checkout.pc = "idle"
    /\ paymentModal' = [paymentModal EXCEPT
                           !.cash = cashPaid,
                           !.disabled = ChangeNegative(cashPaid, CartTotal(cart))]
    /\ UNCHANGED <<stores, memory, handlers, history, mergeRun, pageOps>>

(* completeTransaction's catch and finally, and showReceiptModal: the      *)
(* button is enabled again when the handler ends either way, and the       *)
(* receipt closes the payment dialog                                       *)
PaymentAfter(ck) ==
    IF ck.pc = "receipt"
    THEN [paymentModal EXCEPT !.open = FALSE, !.disabled = FALSE]
    ELSE IF ck.pc = "idle"
         THEN [paymentModal EXCEPT !.disabled = FALSE]
         ELSE paymentModal

(* The stock loop at item i: the read of the product is issued, or the     *)
(* loop is over and the receipt is shown                                   *)
CheckoutAtItem(i) ==
    IF i <= Len(cart.items)
    THEN [checkout EXCEPT !.pc = "w_get", !.idx = i,
                          !.product = Lookup(products, cart.items[i].id)]
    ELSE [checkout EXCEPT !.pc = "receipt", !.outcome = "completed",
                          !.idx = i, !.product = NoRecord]

(* ... the queue put resolved: sync if online, then the stock loop starts  *)
(* or goes on with the next item                                           *)
checkoutNextItem ==
    /\ checkout.pc \in {"w_queueTx", "w_queue"}
    /\ UNCHANGED stores
    /\ QueueTrigger
    /\ checkout' = CheckoutAtItem(checkout.idx + 1)
    /\ paymentModal' = PaymentAfter(checkout')
    /\ UNCHANGED <<cart, isOnline, mockServerData, now, addOp, stockOp, feeOp,
                   dataOp, acked, mergeRun, pageOps>>

(* product.stock -= item.quantity *)
StockAfterSale(stock, quantity) == stock - quantity

(* ... the product was read: if it exists its stock is lowered and put     *)
(* back, and the put is accepted or rejected by the storage engine         *)
checkoutPutStock ==
    /\ checkout.pc = "w_get"
    /\ LET product == checkout.product
           item == cart.items[checkout.idx]
           updated == [product EXCEPT
                          !.stock = StockAfterSale(product.stock, item.quantity),
                          !.updatedAt = now]
       IN  IF Exists(product)
           THEN \E accepted \in BOOLEAN :
                  IF accepted
                  THEN /\ products' = Put(products, updated)
                       /\ checkout' = [checkout EXCEPT !.pc = "w_put",
                                          !.product = updated,
                                          !.written = @ \cup {product.id}]
                  ELSE /\ UNCHANGED products
                       /\ checkout' = [checkout EXCEPT !.pc = "idle",
                                          !.outcome = "failed"]
           ELSE /\ UNCHANGED products
                /\ checkout' = CheckoutAtItem(checkout.idx + 1)
    /\ paymentModal' = PaymentAfter(checkout')
    /\ UNCHANGED <<categories, transactions, fees, sync_queue, lastSync, keyGen,
                   memory, addOp, stockOp, feeOp, cycles, dataOp, history,
                   mergeRun, pageOps>>

(* ... the stock put resolved: queueSyncAction('UPDATE_PRODUCT') *)
checkoutQueueStock ==
    /\ checkout.pc = "w_put"
    /\ QueuePut("UPDATE_PRODUCT", checkout.product.id)
    /\ checkout' = [checkout EXCEPT !.pc = "w_queue"]
    /\ UNCHANGED <<products, categories, transactions, fees, lastSync, memory,
                   addOp, stockOp, feeOp, cycles, dataOp, history,
                   mergeRun, modals>>

(* a click on the complete button of the payment dialog: the handler runs  *)
(* with what the cash field holds                                          *)
completeTransactionButton ==
    /\ paymentModal.open
    /\ ~paymentModal.disabled
    /\ completeTransaction(paymentModal.cash)

(* startNewTransaction from the receipt: a new cart, and applyDefaultFees  *)
(* issues its read of the fee store                                        *)
startNewTransaction ==
    /\ checkout.pc = "receipt"
    /\ feeOp.pc = "idle"
    /\ cart' = EmptyCart
    /\ feeOp' = [pc |-> "w_default", allFees |-> GetAll(fees), selected |-> {}]
    /\ checkout' = [checkout EXCEPT !.pc = "idle"]
    /\ UNCHANGED <<stores, isOnline, isSyncing, mockServerData, now, addOp,
                   stockOp, cycles, dataOp, history, mergeRun, modals>>

---------------------------------------------------------------------------
(* Manual stock adjustment *)

(* increaseStock / decreaseStock: the read of the product is issued *)
adjustStock(kind, pid) ==
    /\ stockOp.pc = "idle"
    /\ addOp.pc = "idle"
    /\ feeOp.pc = "idle"
    /\ CanEnqueue
    /\ kind = "increase" => Lookup(products, pid).stock < MaxStock
    /\ stockOp' = [IdleStockOp EXCEPT !.pc = "w_get", !.kind = kind,
                                      !.product = Lookup(products, pid)]
    /\ UNCHANGED <<stores, memory, addOp, checkout, feeOp, cycles, dataOp,
                   history, mergeRun, modals>>

(* the safeguard of decreaseStock *)
DecreaseRefused(stock) == stock <= 0

(* ... resumes with the product: changes the stock by one and puts it back *)
adjustStockPut ==
    /\ stockOp.pc = "w_get"
    /\ LET product == stockOp.product
           updated == [product EXCEPT
                          !.stock = IF stockOp.kind = "increase" THEN @ + 1 ELSE @ - 1,
                          !.updatedAt = now]
       IN  IF ~Exists(product)
              \/ (stockOp.kind = "decrease" /\ DecreaseRefused(product.stock))
           THEN /\ stockOp' = IdleStockOp
                /\ UNCHANGED products
           ELSE /\ products' = Put(products, updated)
                /\ stockOp' = [stockOp EXCEPT !.pc = "w_put", !.product = updated]
    /\ UNCHANGED <<categories, transactions, fees, sync_queue, lastSync, keyGen,
                   memory, addOp, checkout, feeOp, cycles, dataOp, history,
                   mergeRun, modals>>

(* ... the put resolved: queueSyncAction('UPDATE_PRODUCT') *)
adjustStockQueue ==
    /\ stockOp.pc = "w_put"
    /\ QueuePut("UPDATE_PRODUCT", stockOp.product.id)
    /\ stockOp' = [stockOp EXCEPT !.pc = "w_queue", !.queued = keyGen.sync_queue + 1]
    /\ UNCHANGED <<products, categories, transactions, fees, lastSync, memory,
                   addOp, checkout, feeOp, cycles, dataOp, history,
                   mergeRun, modals>>

(* ... the queue put resolved: sync if online, and the handler is done *)
adjustStockDone ==
    /\ stockOp.pc = "w_queue"
    /\ UNCHANGED stores
    /\ QueueTrigger
    /\ stockOp' = IdleStockOp
    /\ UNCHANGED <<cart, isOnline, mockServerData, now, addOp, checkout, feeOp,
                   dataOp, acked, mergeRun, modals>>

(* deleteProduct, confirmed: the read of the product is issued *)
deleteProduct(id) ==
    /\ stockOp.pc = "idle"
    /\ addOp.pc = "idle"
    /\ checkout.pc = "idle"
    /\ ~paymentModal.open
    /\ CanEnqueue
    /\ stockOp' = [IdleStockOp EXCEPT !.pc = "w_getDel", !.kind = "delete",
                                      !.product = Lookup(products, id)]
    /\ UNCHANGED <<stores, memory, addOp, checkout, feeOp, cycles, dataOp,
                   history, mergeRun, modals>>

(* ... resumes with the product: store.delete(id) in a transaction of its  *)
(* own; the cart is not looked at                                          *)
deleteProductDelete ==
    /\ stockOp.pc = "w_getDel"
    /\ products' = Delete(products, stockOp.product.id)
    /\ stockOp' = [stockOp EXCEPT !.pc = "w_delete"]
    /\ UNCHANGED <<categories, transactions, fees, sync_queue, lastSync, keyGen,
                   memory, addOp, checkout, feeOp, cycles, dataOp, history,
                   mergeRun, modals>>

(* ... transaction.oncomplete: queueSyncAction('DELETE_PRODUCT'); the      *)
(* handler then ends as adjustStockDone does                               *)
deleteProductQueue ==
    /\ stockOp.pc = "w_delete"
    /\ QueuePut("DELETE_PRODUCT", stockOp.product.id)
    /\ stockOp' = [stockOp EXCEPT !.pc = "w_queue", !.queued = keyGen.sync_queue + 1]
    /\ UNCHANGED <<products, categories, transactions, fees, lastSync, memory,
                   addOp, checkout, feeOp, cycles, dataOp, history,
                   mergeRun, modals>>

---------------------------------------------------------------------------
(* Deleting a transaction from the report *)

(* deleteTransaction, confirmed: the read of the transaction is issued *)
deleteTransaction(id) ==
    /\ deleteOp.pc = "idle"
    /\ deleteOp' = [pc |-> "w_get", outcome |-> "none", txn |-> Lookup(transactions, id)]
    /\ UNCHANGED <<stores, memory, handlers, history, mergeRun, paymentModal, feeEdit, otherOps>>

(* product.stock += item.quantity *)
StockAfterRestore(stock, quantity) == stock + quantity

(* the products store after the stock of every line item whose product is *)
(* in the store was put back                                               *)
Restocked(store, items) ==
    {IF \E i \in 1..Len(items) : items[i].id = p.id
     THEN LET i == CHOOSE i \in 1..Len(items) : items[i].id = p.id
          IN  [p EXCEPT !.stock = StockAfterRestore(p.stock, items[i].quantity),
                        !.updatedAt = now]
     ELSE p : p \in store}

(* the line items, in order, whose product put succeeded before the put    *)
(* of item failAt was rejected (failAt = 0: none was rejected)             *)
PutsDone(store, items, failAt) ==
    SelectSeq([i \in 1..Len(items) |-> [i |-> i, id |-> items[i].id]],
              LAMBDA x : Has(store, x.id) /\ (failAt = 0 \/ x.i < failAt))

(* ... resumes with the transaction: one IndexedDB transaction over        *)
(* transactions and products deletes the record and puts every line        *)
(* item's quantity back on its product; a rejected put aborts it.          *)
(* queueSyncAction is called, each in a transaction of its own, for the    *)
(* record when the delete is requested and for a product when its put      *)
(* succeeded.                                                              *)
deleteTransactionRun ==
    /\ deleteOp.pc = "w_get"
    /\ IF ~Exists(deleteOp.txn)
       THEN /\ deleteOp' = [deleteOp EXCEPT !.pc = "idle", !.outcome = "notFound"]
            /\ UNCHANGED <<stores, isSyncing, cycles, cyc>>
       ELSE LET items == deleteOp.txn.items
                id == deleteOp.txn.id
            IN  /\ keyGen.sync_queue + Len(items) < MaxQueueKey
                /\ \E failAt \in {0} \cup {i \in 1..Len(items) : Has(products, items[i].id)} :
                      LET done == PutsDone(products, items, failAt)
                          first == keyGen.sync_queue + 1
                      IN  /\ sync_queue' = sync_queue
                                \cup {SyncQueueEntry(first, "DELETE_TRANSACTION", id)}
                                \cup {SyncQueueEntry(first + k, "UPDATE_PRODUCT_STOCK", done[k].id) :
                                         k \in 1..Len(done)}
                          /\ keyGen' = [keyGen EXCEPT !.sync_queue = first + Len(done)]
                          /\ IF failAt = 0
                             THEN /\ transactions' = Delete(transactions, id)
                                  /\ products' = Restocked(products, items)
                                  /\ deleteOp' = [deleteOp EXCEPT !.pc = "idle",
                                                                  !.outcome = "deleted"]
                             ELSE /\ UNCHANGED <<transactions, products>>
                                  /\ deleteOp' = [deleteOp EXCEPT !.pc = "idle",
                                                                  !.outcome = "aborted"]
                /\ UNCHANGED <<categories, fees, lastSync>>
                /\ QueueTrigger
    /\ UNCHANGED <<cart, isOnline, mockServerData, now, addOp, checkout, stockOp,
                   feeOp, dataOp, acked, mergeRun, paymentModal, feeEdit, otherOps>>

---------------------------------------------------------------------------
(* The pull merge of syncWithServer *)

(* new Map(local.filter(r => r.serverId).map(r => [r.serverId, r])): of    *)
(* the records that share a serverId the last one read stays in the map    *)
ServerIdMap(local) ==
    [sid \in {local[i].serverId : i \in 1..Len(local)} \ {None} |->
        local[CHOOSE i \in 1..Len(local) :
                 /\ local[i].serverId = sid
                 /\ \A j \in 1..Len(local) : local[j].serverId = sid => j <= i]]

(* The unique indexes of the database: barcode of products (null is not   *)
(* indexed), name of categories                                            *)
Collides(kind, store, rec) ==
    \E q \in store :
        /\ <<kind, IF kind = "products" THEN "barcode" ELSE "name">> \in upgrade.schema.unique
        /\ q.id # rec.id
        /\ IF kind = "products"
           THEN rec.barcode # None /\ q.barcode = rec.barcode
           ELSE q.name = rec.name

(* Object.assign(local, server, { id: local.id }), and the record that is  *)
(* put for a server record without a local one                             *)
AssignServer(kind, id, server) ==
    IF kind = "products"
    THEN Product(id, server.name, server.price, server.discountPercentage,
                 server.stock, server.barcode, server.serverId, server.updatedAt)
    ELSE Category(id, server.name, server.serverId, server.updatedAt)

RemoteNotOlder(local, server) ==
    local.updatedAt = None \/ server.updatedAt >= local.updatedAt

(* !local.updatedAt || new Date(server.updatedAt) > new Date(local.updatedAt) *)
RemoteIsNewer(local, server) ==
    local.updatedAt = None \/ server.updatedAt > local.updatedAt

(* The loop over the server's records of one kind.  st is the store inside *)
(* the merge transaction, the serverId map, the key generator and whether  *)
(* every request so far was accepted.                                      *)
RECURSIVE MergeUpserts(_, _, _)
MergeUpserts(kind, st, list) ==
    IF list = <<>> THEN st
    ELSE LET server == Head(list)
             found == server.serverId \in DOMAIN st.map
             local == st.map[server.serverId]
             assigned == AssignServer(kind, local.id, server)
             merged == IF kind = "products"
                       THEN [assigned EXCEPT !.category = local.category]
                       ELSE assigned
             added == AssignServer(kind, st.gen + 1, server)
             next ==
                IF found
                THEN IF RemoteIsNewer(local, server)
                     THEN [st EXCEPT !.store = Put(@, merged),
                                     !.map = [@ EXCEPT ![server.serverId] = merged],
                                     !.ok = @ /\ ~Collides(kind, st.store, merged)]
                     ELSE st
                ELSE [st EXCEPT !.store = Put(@, added),
                                !.gen = @ + 1,
                                !.ok = @ /\ ~Collides(kind, st.store, added)]
         IN  MergeUpserts(kind, next, Tail(list))

(* the deletion that takes the marker for the key of the record *)
MergeDeletesByMarker(st, deleted) ==
    [st EXCEPT !.store = {r \in @ : \A i \in 1..Len(deleted) : r.id # deleted[i]}]

(* The loop over the deletion markers of one kind *)
RECURSIVE MergeDeletes(_, _)
MergeDeletes(st, deleted) ==
    IF deleted = <<>> THEN st
    ELSE MergeDeletes(
            IF Head(deleted) \in DOMAIN st.map
            THEN [st EXCEPT !.store = Delete(@, st.map[Head(deleted)].id)]
            ELSE st,
            Tail(deleted))

(* the merge whose requests stay applied when a later one fails *)
MergeWithoutRollback(prods, cats, gen, localProducts, localCategories, updates) ==
    LET p == MergeDeletes(
                MergeUpserts("products",
                    [store |-> prods, map |-> ServerIdMap(localProducts),
                     gen |-> gen.products, ok |-> TRUE],
                    updates.products),
                updates.deleted.products)
        c == MergeDeletes(
                MergeUpserts("categories",
                    [store |-> cats, map |-> ServerIdMap(localCategories),
                     gen |-> gen.categories, ok |-> TRUE],
                    updates.categories),
                updates.deleted.categories)
    IN  [ok |-> p.ok /\ c.ok,
         products |-> p.store,
         categories |-> c.store,
         keyGen |-> [gen EXCEPT !.products = p.gen, !.categories = c.gen]]

(* The merge transaction over products and categories: every request is    *)
(* applied, or one of them fails and the transaction aborts                *)
Merge(prods, cats, gen, localProducts, localCategories, updates) ==
    LET p == MergeDeletes(
                MergeUpserts("products",
                    [store |-> prods, map |-> ServerIdMap(localProducts),
                     gen |-> gen.products, ok |-> TRUE],
                    updates.products),
                updates.deleted.products)
        c == MergeDeletes(
                MergeUpserts("categories",
                    [store |-> cats, map |-> ServerIdMap(localCategories),
                     gen |-> gen.categories, ok |-> TRUE],
                    updates.categories),
                updates.deleted.categories)
        ok == p.ok /\ c.ok
    IN  [ok |-> ok,
         products |-> IF ok THEN p.store ELSE prods,
         categories |-> IF ok THEN c.store ELSE cats,
         keyGen |-> IF ok THEN [gen EXCEPT !.products = p.gen, !.categories = c.gen]
                    ELSE gen]

(* mockServerData, built when the script loads at time t *)
MockServerData(t) ==
    [products |-> <<>>,
     categories |-> <<[serverId |-> ServerCat201, name |-> "Lainnya", updatedAt |-> t]>>,
     deleted |-> [products |-> <<>>, categories |-> <<>>]]

(* mockFetchFromServer(lastSync): what changed after lastSync, and every   *)
(* deletion marker                                                         *)
mockFetchFromServer(since) ==
    [products |-> SelectSeq(mockServerData.products, LAMBDA r : r.updatedAt > since),
     categories |-> SelectSeq(mockServerData.categories, LAMBDA r : r.updatedAt > since),
     deleted |-> mockServerData.deleted]

HasUpdates(u) ==
    \/ Len(u.products) > 0
    \/ Len(u.categories) > 0
    \/ Len(u.deleted.products) > 0
    \/ Len(u.deleted.categories) > 0

---------------------------------------------------------------------------
(* syncWithServer after its first await, one action per resumption.  The   *)
(* answer of the remote API to a pushed entry is an input of the program:  *)
(* the code branches on response.success.                                  *)

Task(cy) == cy.syncQueue[cy.idx]

(* the write-back without the test for a CREATE_ action *)
StoreOfAnyAction(action) ==
    CASE action \in {"CREATE_PRODUCT", "UPDATE_PRODUCT"} -> "products"
      [] action = "CREATE_CATEGORY" -> "categories"
      [] action = "CREATE_TRANSACTION" -> "transactions"
      [] action = "CREATE_FEE" -> "fees"
      [] OTHER -> "none"

(* the store a CREATE_ entry's record lives in *)
StoreOf(action) ==
    CASE action = "CREATE_PRODUCT" -> "products"
      [] action = "CREATE_CATEGORY" -> "categories"
      [] action = "CREATE_TRANSACTION" -> "transactions"
      [] action = "CREATE_FEE" -> "fees"
      [] OTHER -> "none"

StoreRecords(name) ==
    CASE name = "products" -> products
      [] name = "categories" -> categories
      [] name = "transactions" -> transactions
      [] name = "fees" -> fees
      [] OTHER -> {}

(* The for loop moves to the next entry of the snapshot; after the last    *)
(* one the pull starts with the read of lastSync                           *)
NextTask(cy) ==
    IF cy.idx < Len(cy.syncQueue)
    THEN [cy EXCEPT !.pc = "w_api", !.idx = @ + 1, !.item = NoRecord, !.serverId = None]
    ELSE [cy EXCEPT !.pc = "w_lastSync", !.lastSync = lastSync,
                    !.item = NoRecord, !.serverId = None]

PushFailureSkipsTask(cy) == NextTask(cy)

(* throw new Error(...): the catch logs, the finally ends the cycle *)
PushFailureThrows(cy) == IdleCycle

FailedTaskDropped(queue, task) == Delete(queue, task.id)

(* the failure branch leaves the task in the queue: it issues no delete *)
FailedTaskKept(queue, task) == queue

ResponseOkAlways(success) == TRUE

(* if (response.success) *)
ResponseOk(success) == success

(* ... resumes with the snapshot of the queue *)
syncReadQueue(c) ==
    /\ cycles[c].pc = "w_getQueue"
    /\ cycles' = [cycles EXCEPT ![c] = NextTask(@)]
    /\ UNCHANGED <<stores, memory, addOp, checkout, stockOp, feeOp, dataOp,
                   history, mergeRun, modals>>

(* ... resumes with the API's answer for the entry in flight *)
syncApiResponse(c, success) ==
    /\ cycles[c].pc = "w_api"
    /\ LET cy == cycles[c]
           task == Task(cy)
           store == StoreOf(task.action)
       IN  /\ acked' = IF success THEN acked \cup {task.id} ELSE acked
           /\ IF ResponseOk(success)
              THEN IF store # "none" /\ task.payloadId # None
                   THEN /\ cycles' = [cycles EXCEPT ![c] =
                               [cy EXCEPT !.pc = "w_getItem", !.serverId = now,
                                          !.item = Lookup(StoreRecords(store), task.payloadId)]]
                        /\ UNCHANGED <<sync_queue, isSyncing>>
                   ELSE /\ sync_queue' = Delete(sync_queue, task.id)
                        /\ cycles' = [cycles EXCEPT ![c] = NextTask(cy)]
                        /\ UNCHANGED isSyncing
              ELSE /\ sync_queue' = FailedTaskKept(sync_queue, task)
                   /\ cycles' = [cycles EXCEPT ![c] = PushFailureThrows(cy)]
                   /\ isSyncing' = IF cycles'[c].pc = "idle" THEN FALSE ELSE isSyncing
           /\ cyc' = [cyc EXCEPT !.pushFailed = @ \/ ~success]
    /\ UNCHANGED <<products, categories, transactions, fees, lastSync, keyGen,
                   cart, isOnline, mockServerData, now,
                   addOp, checkout, stockOp, feeOp, dataOp,
                   mergeRun, modals>>

(* the write-back that stores the record anew, its amounts not kept *)
WithServerIdOnly(item, serverId) ==
    [item EXCEPT !.serverId = serverId, !.total = 0, !.fees = <<>>]

(* item.serverId = response.serverId *)
WithServerId(item, serverId) == [item EXCEPT !.serverId = serverId]

(* ... resumes with the local record of a CREATE_ entry: writes the        *)
(* serverId back, or removes the entry when the record is gone; a put that *)
(* a unique index rejects throws, and the cycle ends                       *)
syncWriteBack(c) ==
    /\ cycles[c].pc = "w_getItem"
    /\ LET cy == cycles[c]
           task == Task(cy)
           store == StoreOf(task.action)
           item == WithServerId(cy.item, cy.serverId)
       IN  IF /\ Exists(cy.item)
              /\ store \in {"products", "categories"}
              /\ Collides(store, StoreRecords(store), item)
           THEN /\ cycles' = [cycles EXCEPT ![c] = PushFailureThrows(cy)]
                /\ isSyncing' = FALSE
                /\ UNCHANGED <<products, categories, transactions, fees, sync_queue, cyc>>
           ELSE IF Exists(cy.item)
           THEN /\ products' = IF store = "products" THEN Put(products, item) ELSE products
                /\ categories' = IF store = "categories" THEN Put(categories, item)
                                 ELSE categories
                /\ transactions' = IF store = "transactions" THEN Put(transactions, item)
                                   ELSE transactions
                /\ fees' = IF store = "fees" THEN Put(fees, item) ELSE fees
                /\ cycles' = [cycles EXCEPT ![c] = [cy EXCEPT !.pc = "w_putItem"]]
                /\ cyc' = [cyc EXCEPT !.writtenBack = @ \cup {task.id}]
                /\ UNCHANGED <<sync_queue, isSyncing>>
           ELSE /\ sync_queue' = Delete(sync_queue, task.id)
                /\ cycles' = [cycles EXCEPT ![c] = NextTask(cy)]
                /\ UNCHANGED <<products, categories, transactions, fees, isSyncing, cyc>>
    /\ UNCHANGED <<lastSync, keyGen, cart, isOnline, mockServerData, now, addOp,
                   checkout, stockOp, feeOp, dataOp, acked, mergeRun, modals>>

(* ... resumes after the write-back: removes the entry from the queue *)
syncRemoveTask(c) ==
    /\ cycles[c].pc = "w_putItem"
    /\ sync_queue' = Delete(sync_queue, Task(cycles[c]).id)
    /\ cycles' = [cycles EXCEPT ![c] = NextTask(@)]
    /\ UNCHANGED <<products, categories, transactions, fees, lastSync, keyGen,
                   memory, addOp, checkout, stockOp, feeOp, dataOp, history,
                   mergeRun, modals>>

(* ... resumes with lastSync: asks the server for what changed since *)
syncFetch(c) ==
    /\ cycles[c].pc = "w_lastSync"
    /\ cycles' = [cycles EXCEPT ![c] =
                     [@ EXCEPT !.pc = "w_fetch",
                               !.serverUpdates = mockFetchFromServer(cycles[c].lastSync)]]
    /\ cyc' = [cyc EXCEPT !.pulled = TRUE, !.fetchedAt = now]
    /\ UNCHANGED <<stores, memory, addOp, checkout, stockOp, feeOp, dataOp,
                   acked, mergeRun, modals>>

(* ... resumes with the server's delta, after the latency of the fetch:    *)
(* reads the local products, or finalizes at once when the delta is empty  *)
syncFetched(c) ==
    /\ cycles[c].pc = "w_fetch"
    /\ now < MaxClock
    /\ now' = now + 1
    /\ IF HasUpdates(cycles[c].serverUpdates)
       THEN /\ cycles' = [cycles EXCEPT ![c] =
                             [@ EXCEPT !.pc = "w_localProducts",
                                       !.localProducts = GetAll(products)]]
            /\ UNCHANGED <<lastSync, cyc>>
       ELSE /\ cycles' = [cycles EXCEPT ![c] = [@ EXCEPT !.pc = "w_finalize"]]
            /\ lastSync' = now'
            /\ cyc' = [cyc EXCEPT !.finalized = TRUE]
    /\ UNCHANGED <<products, categories, transactions, fees, sync_queue, keyGen,
                   cart, isOnline, isSyncing, mockServerData,
                   addOp, checkout, stockOp, feeOp, dataOp, acked,
                   mergeRun, modals>>

(* ... resumes with the local products: reads the local categories *)
syncLocalProducts(c) ==
    /\ cycles[c].pc = "w_localProducts"
    /\ cycles' = [cycles EXCEPT ![c] =
                     [@ EXCEPT !.pc = "w_localCategories",
                               !.localCategories = GetAll(categories)]]
    /\ UNCHANGED <<stores, memory, addOp, checkout, stockOp, feeOp, dataOp,
                   history, mergeRun, modals>>

(* ... resumes with the local categories: issues the requests of the merge *)
(* transaction and, without waiting for it, the put of lastSync            *)
syncMerge(c) ==
    /\ cycles[c].pc = "w_localCategories"
    /\ LET cy == cycles[c]
           m == Merge(products, categories, keyGen,
                      cy.localProducts, cy.localCategories, cy.serverUpdates)
       IN  /\ products' = m.products
           /\ categories' = m.categories
           /\ keyGen' = m.keyGen
           /\ cyc' = [cyc EXCEPT !.mergeAborted = ~m.ok, !.finalized = TRUE]
    /\ lastSync' = now
    /\ cycles' = [cycles EXCEPT ![c] = [@ EXCEPT !.pc = "w_finalize"]]
    /\ UNCHANGED <<transactions, fees, sync_queue, memory,
                   addOp, checkout, stockOp, feeOp, dataOp, acked,
                   mergeRun, modals>>

(* the cycle ends and the busy flag stays as it is *)
syncDoneFlagKept(c) ==
    /\ cycles[c].pc = "w_finalize"
    /\ cycles' = [cycles EXCEPT ![c] = IdleCycle]
    /\ UNCHANGED <<stores, cart, isOnline, isSyncing, mockServerData, now,
                   addOp, checkout, stockOp, feeOp, dataOp, history,
                   mergeRun, modals>>

(* ... resumes after the put of lastSync: the finally clears the busy flag *)
syncDone(c) ==
    /\ cycles[c].pc = "w_finalize"
    /\ cycles' = [cycles EXCEPT ![c] = IdleCycle]
    /\ isSyncing' = FALSE
    /\ UNCHANGED <<stores, cart, isOnline, mockServerData, now,
                   addOp, checkout, stockOp, feeOp, dataOp, history,
                   mergeRun, modals>>

---------------------------------------------------------------------------
(* The callers of syncWithServer other than queueSyncAction *)

(* the sync button: window.syncWithServer(true) *)
syncManual ==
    /\ UNCHANGED sync_queue
    /\ SyncWithServer(isOnline)
    /\ UNCHANGED <<products, categories, transactions, fees, lastSync, keyGen,
                   cart, isOnline, mockServerData, now,
                   addOp, checkout, stockOp, feeOp, dataOp, acked,
                   mergeRun, modals>>

(* the periodic timer *)
syncTimer ==
    /\ UNCHANGED sync_queue
    /\ SyncWithServer(isOnline)
    /\ UNCHANGED <<products, categories, transactions, fees, lastSync, keyGen,
                   cart, isOnline, mockServerData, now,
                   addOp, checkout, stockOp, feeOp, dataOp, acked,
                   mergeRun, modals>>

(* the handler of the browser's online and offline events *)
checkOnlineStatus(online) ==
    /\ online # isOnline
    /\ isOnline' = online
    /\ UNCHANGED sync_queue
    /\ IF online
       THEN SyncWithServer(online)
       ELSE UNCHANGED <<isSyncing, cycles, cyc>>
    /\ UNCHANGED <<products, categories, transactions, fees, lastSync, keyGen,
                   cart, mockServerData, now,
                   addOp, checkout, stockOp, feeOp, dataOp, acked,
                   mergeRun, modals>>

---------------------------------------------------------------------------
(* The product forms and the category list *)

(* no confirmation dialog of deleteCategory covers the page *)
NoConfirmation == catalogOp["deleteCategory"].pc # "confirm"

CatalogIdle(h) == [catalogOp EXCEPT ![h] = IdleCatalog[h]]

(* putToDB('products', rec) by handler h: the barcode index rejects a      *)
(* barcode that another product holds, and the handler's catch ends it      *)
CatalogPut(h, rec) ==
    IF Collides("products", products, rec)
    THEN /\ catalogOp' = CatalogIdle(h)
         /\ UNCHANGED <<products, keyGen>>
    ELSE /\ products' = Put(products, rec)
         /\ keyGen' = [keyGen EXCEPT !.products = IF rec.id > @ THEN rec.id ELSE @]
         /\ catalogOp' = [catalogOp EXCEPT ![h] =
                             [pc |-> "w_put", rec |-> rec, products |-> <<>>]]

(* products.some(p => p.barcode === barcode && p.id !== id); id is 0 for a *)
(* product that is being added                                             *)
BarcodeUsed(list, rec) ==
    \E i \in 1..Len(list) : list[i].barcode = rec.barcode /\ list[i].id # rec.id

(* addProduct: with a barcode the products are read first, without one the *)
(* product is put at once                                                  *)
addProduct(barcode, category) ==
    /\ catalogOp["addProduct"].pc = "idle"
    /\ NoConfirmation
    /\ CanEnqueue
    /\ LET newProduct == [Product(None, "Teh", 5000, 0, 1, barcode, None, now)
                             EXCEPT !.category = category]
       IN  IF barcode # None
           THEN /\ catalogOp' = [catalogOp EXCEPT !["addProduct"] =
                       [pc |-> "w_getAll", rec |-> newProduct, products |-> GetAll(products)]]
                /\ UNCHANGED <<products, keyGen>>
           ELSE CatalogPut("addProduct", [newProduct EXCEPT !.id = keyGen.products + 1])
    /\ UNCHANGED <<categories, transactions, fees, sync_queue, lastSync, memory,
                   handlers, history, mergeRun, paymentModal, deleteOp, feeEdit,
                   cartOps, schema>>

(* ... resumes with the products: a used barcode ends it, else the put *)
addProductPut ==
    /\ catalogOp["addProduct"].pc = "w_getAll"
    /\ LET op == catalogOp["addProduct"]
       IN  IF BarcodeUsed(op.products, op.rec)
           THEN /\ catalogOp' = CatalogIdle("addProduct")
                /\ UNCHANGED <<products, keyGen>>
           ELSE CatalogPut("addProduct", [op.rec EXCEPT !.id = keyGen.products + 1])
    /\ UNCHANGED <<categories, transactions, fees, sync_queue, lastSync, memory,
                   handlers, history, mergeRun, paymentModal, deleteOp, feeEdit,
                   cartOps, schema>>

(* updateProduct: the form holds the product as the list showed it, with   *)
(* this barcode and category; with a barcode the products are read first   *)
updateProduct(id, barcode, category) ==
    /\ catalogOp["updateProduct"].pc = "idle"
    /\ NoConfirmation
    /\ CanEnqueue
    /\ Has(products, id)
    /\ LET form == [Get(products, id) EXCEPT !.barcode = barcode, !.category = category]
       IN  catalogOp' = [catalogOp EXCEPT !["updateProduct"] =
              IF barcode # None
              THEN [pc |-> "w_getAll", rec |-> form, products |-> GetAll(products)]
              ELSE [pc |-> "w_get", rec |-> form, products |-> <<Lookup(products, id)>>]]
    /\ UNCHANGED <<stores, memory, handlers, history, mergeRun, paymentModal,
                   deleteOp, feeEdit, cartOps, schema>>

(* ... resumes with the products: a barcode used by another product ends   *)
(* it, else the product is read                                            *)
updateProductGet ==
    /\ catalogOp["updateProduct"].pc = "w_getAll"
    /\ LET op == catalogOp["updateProduct"]
       IN  catalogOp' =
              IF BarcodeUsed(op.products, op.rec)
              THEN CatalogIdle("updateProduct")
              ELSE [catalogOp EXCEPT !["updateProduct"] =
                       [op EXCEPT !.pc = "w_get",
                                  !.products = <<Lookup(products, op.rec.id)>>]]
    /\ UNCHANGED <<stores, memory, handlers, history, mergeRun, paymentModal,
                   deleteOp, feeEdit, cartOps, schema>>

(* ... resumes with the product: the fields of the form are assigned and   *)
(* the product is put                                                      *)
updateProductPut ==
    /\ catalogOp["updateProduct"].pc = "w_get"
    /\ LET op == catalogOp["updateProduct"]
           product == op.products[1]
       IN  IF Exists(product)
           THEN CatalogPut("updateProduct",
                           [product EXCEPT !.name = op.rec.name,
                                           !.barcode = op.rec.barcode,
                                           !.price = op.rec.price,
                                           !.stock = op.rec.stock,
                                           !.category = op.rec.category,
                                           !.discountPercentage = op.rec.discountPercentage,
                                           !.updatedAt = now])
           ELSE /\ catalogOp' = CatalogIdle("updateProduct")
                /\ UNCHANGED <<products, keyGen>>
    /\ UNCHANGED <<categories, transactions, fees, sync_queue, lastSync, memory,
                   handlers, history, mergeRun, paymentModal, deleteOp, feeEdit,
                   cartOps, schema>>

(* deleteCategory(id, name) from the category list: the products are read *)
deleteCategory(id) ==
    /\ catalogOp["deleteCategory"].pc = "idle"
    /\ CanEnqueue
    /\ Has(categories, id)
    /\ catalogOp' = [catalogOp EXCEPT !["deleteCategory"] =
          [pc |-> "w_getAll", rec |-> Get(categories, id), products |-> GetAll(products)]]
    /\ UNCHANGED <<stores, memory, handlers, history, mergeRun, paymentModal,
                   deleteOp, feeEdit, cartOps, schema>>

(* products.some(p => p.category === name) *)
IsUsed(list, name) == \E i \in 1..Len(list) : list[i].category = name

(* ... resumes with the products: a category in use ends it, else the      *)
(* confirmation dialog is shown                                            *)
deleteCategoryCheck ==
    /\ catalogOp["deleteCategory"].pc = "w_getAll"
    /\ LET op == catalogOp["deleteCategory"]
       IN  catalogOp' =
              IF IsUsed(op.products, op.rec.name)
              THEN CatalogIdle("deleteCategory")
              ELSE [catalogOp EXCEPT !["deleteCategory"] = [op EXCEPT !.pc = "confirm"]]
    /\ UNCHANGED <<stores, memory, handlers, history, mergeRun, paymentModal,
                   deleteOp, feeEdit, cartOps, schema>>

(* the dialog is answered: confirmed, the category is read *)
deleteCategoryAnswer(confirmed) ==
    /\ catalogOp["deleteCategory"].pc = "confirm"
    /\ LET op == catalogOp["deleteCategory"]
       IN  catalogOp' =
              IF confirmed
              THEN [catalogOp EXCEPT !["deleteCategory"] =
                       [pc |-> "w_get", rec |-> [id |-> op.rec.id],
                        products |-> <<Lookup(categories, op.rec.id)>>]]
              ELSE CatalogIdle("deleteCategory")
    /\ UNCHANGED <<stores, memory, handlers, history, mergeRun, paymentModal,
                   deleteOp, feeEdit, cartOps, schema>>

(* ... resumes with the category: store.delete(id) in its own transaction *)
deleteCategoryDelete ==
    /\ catalogOp["deleteCategory"].pc = "w_get"
    /\ LET op == catalogOp["deleteCategory"]
       IN  /\ categories' = Delete(categories, op.rec.id)
           /\ catalogOp' = [catalogOp EXCEPT !["deleteCategory"] =
                               [pc |-> "w_put", rec |-> op.products[1], products |-> <<>>]]
    /\ UNCHANGED <<products, transactions, fees, sync_queue, lastSync, keyGen,
                   memory, handlers, history, mergeRun, paymentModal, deleteOp,
                   feeEdit, cartOps, schema>>

(* the entry that handler h queues *)
CatalogAction(h) ==
    CASE h = "addProduct" -> "CREATE_PRODUCT"
      [] h = "updateProduct" -> "UPDATE_PRODUCT"
      [] h = "deleteCategory" -> "DELETE_CATEGORY"

(* ... the put resolved, or the delete completed: queueSyncAction *)
catalogQueue(h) ==
    /\ catalogOp[h].pc = "w_put"
    /\ QueuePut(CatalogAction(h), catalogOp[h].rec.id)
    /\ catalogOp' = [catalogOp EXCEPT ![h].pc = "w_queue"]
    /\ UNCHANGED <<products, categories, transactions, fees, lastSync, memory,
                   handlers, history, mergeRun, paymentModal, deleteOp, feeEdit,
                   cartOps, schema>>

(* ... the queue put resolved: sync if online, and the handler is done *)
catalogDone(h) ==
    /\ catalogOp[h].pc = "w_queue"
    /\ UNCHANGED stores
    /\ QueueTrigger
    /\ catalogOp' = CatalogIdle(h)
    /\ UNCHANGED <<cart, isOnline, mockServerData, now, addOp, checkout,
                   stockOp, feeOp, dataOp, acked, mergeRun, paymentModal, deleteOp,
                   feeEdit, cartOps, schema>>

---------------------------------------------------------------------------
(* Clearing and importing the data *)

(* clearAllStores: one transaction that clears every object store *)
clearAllStores ==
    /\ products' = {}
    /\ categories' = {}
    /\ transactions' = {}
    /\ fees' = {}
    /\ sync_queue' = {}
    /\ lastSync' = None

(* the file that is imported: a backup of the data the model starts with *)
BackupFile ==
    [products |-> {Product(1, "Kopi", 10000, 10, 2, None, 101, 1),
                   Product(2, "Roti", 20000, 0, 1, None, 102, 1)},
     categories |-> {Category(1, "Makanan", None, None),
                     Category(2, "Minuman", None, None),
                     Category(3, "Lainnya", None, None)},
     fees |-> {Fee(1, "percentage", 10, TRUE), Fee(2, "fixed", 5000, FALSE)},
     transactions |-> {},
     lastSync |-> 1]

(* clearAllData, confirmed: calls clearAllStores *)
clearAllData ==
    /\ dataOp.pc = "idle"
    /\ ~dataOp.reloaded
    /\ clearAllStores
    /\ dataOp' = [dataOp EXCEPT !.pc = "w_clear", !.data = "none"]
    /\ UNCHANGED <<keyGen, memory, addOp, checkout, stockOp, feeOp, cycles,
                   history, mergeRun, modals>>

(* handleImport, confirmed: calls clearAllStores *)
handleImport ==
    /\ dataOp.pc = "idle"
    /\ ~dataOp.reloaded
    /\ clearAllStores
    /\ dataOp' = [dataOp EXCEPT !.pc = "w_clear", !.data = "backup"]
    /\ UNCHANGED <<keyGen, memory, addOp, checkout, stockOp, feeOp, cycles,
                   history, mergeRun, modals>>

(* a put with an explicit key moves the key generator past it *)
KeyGenAfter(gen, store) ==
    IF store = {} THEN gen
    ELSE LET top == CHOOSE k \in {r.id : r \in store} : \A r \in store : r.id <= k
         IN  IF top > gen THEN top ELSE gen

(* ... resumes after clearAllStores: clearAllData arms the reload;         *)
(* handleImport first replaces the stores by the file's records            *)
dataOpResume ==
    /\ dataOp.pc = "w_clear"
    /\ dataOp' = [dataOp EXCEPT !.pc = "w_reload"]
    /\ IF dataOp.data = "backup"
       THEN /\ products' = BackupFile.products
            /\ categories' = BackupFile.categories
            /\ fees' = BackupFile.fees
            /\ transactions' = BackupFile.transactions
            /\ lastSync' = BackupFile.lastSync
            /\ keyGen' = [keyGen EXCEPT
                            !.products = KeyGenAfter(@, BackupFile.products),
                            !.categories = KeyGenAfter(@, BackupFile.categories),
                            !.fees = KeyGenAfter(@, BackupFile.fees),
                            !.transactions = KeyGenAfter(@, BackupFile.transactions)]
            /\ UNCHANGED sync_queue
       ELSE UNCHANGED stores
    /\ UNCHANGED <<memory, addOp, checkout, stockOp, feeOp, cycles, history,
                   mergeRun, modals>>

(* location.reload(): the page and its suspended handlers are gone; init   *)
(* loads the default fees into an empty cart and calls checkOnlineStatus   *)
reload ==
    /\ dataOp.pc = "w_reload"
    /\ dataOp' = [IdleDataOp EXCEPT !.reloaded = TRUE]
    /\ addOp' = IdleAdd
    /\ checkout' = IdleCheckout
    /\ stockOp' = IdleStockOp
    /\ feeOp' = IdleFeeOp
    /\ cart' = [items |-> <<>>, fees |-> SelectSeq(GetAll(fees), LAMBDA f : f.isDefault)]
    /\ mockServerData' = MockServerData(now)
    /\ IF isOnline
       THEN /\ isSyncing' = TRUE
            /\ cycles' = [c \in CycleIds |->
                             IF c = 1
                             THEN [IdleCycle EXCEPT !.pc = "w_getQueue",
                                                    !.syncQueue = GetAll(sync_queue)]
                             ELSE IdleCycle]
            /\ cyc' = NewCyc
       ELSE /\ isSyncing' = FALSE
            /\ cycles' = [c \in CycleIds |-> IdleCycle]
            /\ UNCHANGED cyc
    /\ paymentModal' = ClosedPayment
    /\ deleteOp' = IdleDeleteOp
    /\ feeEdit' = IdleFeeEdit
    /\ addOp2' = IdleAdd
    /\ clearOp' = IdleFeeOp
    /\ catalogOp' = IdleCatalog
    /\ UNCHANGED <<stores, isOnline, now, acked, mergeRun, schema>>

---------------------------------------------------------------------------
(* initDB: indexedDB.open('POS_DB', 7) and its upgrade handler *)

NoSchema == [objectStores |-> {}, indexes |-> {}, unique |-> {}]

(* createObjectStore(name) with createIndex(index, { unique }), unless the *)
(* store exists                                                            *)
WithStore(d, name, index, unique) ==
    IF name \in d.objectStores THEN d
    ELSE [objectStores |-> d.objectStores \cup {name},
          indexes |-> d.indexes \cup {<<name, index>> : x \in {index} \ {""}},
          unique |-> d.unique \cup
                     (IF unique THEN {<<name, index>> : x \in {index} \ {""}} ELSE {})]

(* what the block "if (event.oldVersion < k)" creates *)
MigrationStep(k, d) ==
    CASE k = 2 -> WithStore(WithStore(WithStore(d, "products", "name", FALSE),
                                      "transactions", "date", FALSE),
                            "settings", "", FALSE)
      [] k = 3 -> IF "products" \in d.objectStores
                     /\ <<"products", "barcode">> \notin d.indexes
                  THEN [d EXCEPT !.indexes = @ \cup {<<"products", "barcode">>},
                                 !.unique = @ \cup {<<"products", "barcode">>}]
                  ELSE d
      [] k = 4 -> WithStore(d, "auto_backup", "", FALSE)
      [] k = 5 -> WithStore(d, "categories", "name", TRUE)
      [] k = 6 -> WithStore(d, "sync_queue", "", FALSE)
      [] k = 7 -> WithStore(d, "fees", "", FALSE)

(* the request that the block of version k places in the upgrade transaction *)
MigrationRequest(k) ==
    CASE k = 5 -> <<"products.getAll">>
      [] k = 7 -> <<"settings.get">>
      [] OTHER -> <<>>

(* the blocks from k to top, in the order of the handler, that a database  *)
(* of version v enters: those with v < k                                   *)
RECURSIVE StepsFrom(_, _, _)
StepsFrom(v, k, top) ==
    IF k > top THEN <<>>
    ELSE (IF v < k THEN <<k>> ELSE <<>>) \o StepsFrom(v, k + 1, top)

RECURSIVE Migrated(_, _)
Migrated(d, steps) ==
    IF steps = <<>> THEN d ELSE Migrated(MigrationStep(Head(steps), d), Tail(steps))

RECURSIVE RequestsOf(_)
RequestsOf(steps) ==
    IF steps = <<>> THEN <<>> ELSE MigrationRequest(Head(steps)) \o RequestsOf(Tail(steps))

(* the object stores and indexes of a database of version v *)
SchemaAt(v) == Migrated(NoSchema, StepsFrom(0, 2, v))

(* the upgrade handler of src/index.js: the barcode index is deleted and   *)
(* created again, not unique                                               *)
BarcodeIndexNotUnique(d) ==
    [d EXCEPT !.indexes = @ \cup {<<"products", "barcode">>},
              !.unique = @ \ {<<"products", "barcode">>}]

(* the upgrade handler of src/index.js: its blocks are not keyed by the    *)
(* version, each creates its store when the database has none of the name; *)
(* the one block keyed by the version is that of the barcode index         *)
IndexJsUpgrade(d) ==
    LET withProducts ==
           IF "products" \in d.objectStores THEN d
           ELSE [objectStores |-> d.objectStores \cup {"products"},
                 indexes |-> d.indexes \cup {<<"products", "name">>,
                                             <<"products", "barcode">>,
                                             <<"products", "categoryId">>},
                 unique |-> d.unique]
    IN  BarcodeIndexNotUnique(
           WithStore(WithStore(WithStore(WithStore(withProducts,
                                                   "transactions", "date", FALSE),
                                         "settings", "", FALSE),
                               "categories", "name", TRUE),
                     "fees", "name", TRUE))

NoSnapshot == [categories |-> {}, fees |-> {}, settings |-> {}, keyGen |-> <<>>]

(* the database open at the current version and the page loaded *)
PageLoaded ==
    [pc |-> "loaded", schema |-> SchemaAt(SchemaVersion), steps |-> <<>>,
     requests |-> <<>>, before |-> NoSnapshot]

(* p.category.trim() *)
Trim(name) == IF name = " Kue" THEN "Kue" ELSE name

(* existingCategories: the trimmed categories of the products in key order, *)
(* then the three default names, each once                                  *)
RECURSIVE Unique(_)
Unique(names) ==
    IF names = <<>> THEN <<>>
    ELSE LET front == Unique(SubSeq(names, 1, Len(names) - 1))
             last == names[Len(names)]
         IN  IF \E i \in 1..Len(front) : front[i] = last THEN front
             ELSE Append(front, last)

ExistingCategories(prods) ==
    LET withCategory == SelectSeq(GetAll(prods), LAMBDA p : p.category # "")
    IN  Unique([i \in 1..Len(withCategory) |-> Trim(withCategory[i].category)]
               \o <<"Makanan", "Minuman", "Lainnya">>)

(* categoryStore.add({ name }) for each name, the keys generated in turn *)
PopulatedCategories(names, gen) ==
    {Category(gen + i, names[i], None, None) : i \in 1..Len(names)}

(* the fee that the block of version 7 makes of the storePpn setting *)
PpnFee(id, value) ==
    [id |-> id, name |-> "PPN", type |-> "percentage", value |-> value,
     isDefault |-> TRUE, isTax |-> TRUE]

(* initDB: the open request; a database of a lower version runs the        *)
(* upgrade handler, which creates what is missing and places its requests  *)
openDatabase ==
    /\ upgrade.pc = "closed"
    /\ IF oldVersion < SchemaVersion
       THEN upgrade' = [pc |-> "upgrading",
                        schema |-> Migrated(upgrade.schema, StepsFrom(oldVersion, 2, SchemaVersion)),
                        steps |-> StepsFrom(oldVersion, 2, SchemaVersion),
                        requests |-> RequestsOf(StepsFrom(oldVersion, 2, SchemaVersion)),
                        before |-> [categories |-> categories, fees |-> fees,
                                    settings |-> settings, keyGen |-> keyGen]]
       ELSE upgrade' = [upgrade EXCEPT !.pc = "open"]
    /\ UNCHANGED <<stores, memory, handlers, history, mergeRun, paymentModal,
                   deleteOp, feeEdit, cartOps, catalogOp, settings, oldVersion>>

(* initDB of src/index.js on the same database: the handler places no     *)
(* request in the upgrade transaction, and leaves a callback for the time  *)
(* the transaction has completed                                           *)
openDatabaseIndexJs ==
    /\ upgrade.pc = "closed"
    /\ oldVersion < SchemaVersion
    /\ upgrade' = [pc |-> "upgrading",
                   schema |-> IndexJsUpgrade(upgrade.schema),
                   steps |-> <<SchemaVersion>>,
                   requests |-> <<"oncomplete">>,
                   before |-> [categories |-> categories, fees |-> fees,
                               settings |-> settings, keyGen |-> keyGen]]
    /\ UNCHANGED <<stores, memory, handlers, history, mergeRun, paymentModal,
                   deleteOp, feeEdit, cartOps, catalogOp, settings, oldVersion>>

(* transaction.oncomplete of src/index.js, in a transaction of its own:    *)
(* an empty categories store gets the three default names                  *)
defaultCategories ==
    /\ upgrade.pc \in {"open", "loaded"}
    /\ upgrade.requests = <<"oncomplete">>
    /\ IF categories = {}
       THEN /\ categories' = PopulatedCategories(<<"Makanan", "Minuman", "Lainnya">>,
                                                 keyGen.categories)
            /\ keyGen' = [keyGen EXCEPT !.categories = @ + 3]
       ELSE UNCHANGED <<categories, keyGen>>
    /\ upgrade' = [upgrade EXCEPT !.requests = <<>>]
    /\ UNCHANGED <<products, transactions, fees, sync_queue, lastSync, memory,
                   handlers, history, mergeRun, paymentModal, deleteOp, feeEdit,
                   cartOps, catalogOp, settings, oldVersion>>

(* productsRequest.onsuccess: the categories store is populated *)
upgradeProductsRead ==
    /\ upgrade.pc = "upgrading"
    /\ upgrade.requests # <<>>
    /\ Head(upgrade.requests) = "products.getAll"
    /\ LET names == ExistingCategories(products)
       IN  /\ categories' = categories \cup PopulatedCategories(names, keyGen.categories)
           /\ keyGen' = [keyGen EXCEPT !.categories = @ + Len(names)]
    /\ upgrade' = [upgrade EXCEPT !.requests = Tail(@)]
    /\ UNCHANGED <<products, transactions, fees, sync_queue, lastSync, memory,
                   handlers, history, mergeRun, paymentModal, deleteOp, feeEdit,
                   cartOps, catalogOp, settings, oldVersion>>

(* the storePpn setting is copied to the fee but not deleted *)
upgradeSettingReadKeeps ==
    /\ upgrade.pc = "upgrading"
    /\ upgrade.requests # <<>>
    /\ Head(upgrade.requests) = "settings.get"
    /\ LET ppnSetting == {r \in settings : r.key = "storePpn"}
       IN  IF \E r \in ppnSetting : r.value > 0
           THEN LET r == CHOOSE r \in ppnSetting : TRUE
                IN  /\ fees' = fees \cup {PpnFee(keyGen.fees + 1, r.value)}
                    /\ keyGen' = [keyGen EXCEPT !.fees = @ + 1]
           ELSE UNCHANGED <<fees, keyGen>>
    /\ upgrade' = [upgrade EXCEPT !.requests = Tail(@)]
    /\ UNCHANGED <<products, categories, transactions, sync_queue, lastSync, memory,
                   handlers, history, mergeRun, paymentModal, deleteOp, feeEdit,
                   cartOps, catalogOp, settings, oldVersion>>

(* ppnRequest.onsuccess: a storePpn setting above 0 becomes the PPN fee and *)
(* is deleted from the settings                                            *)
upgradeSettingRead ==
    /\ upgrade.pc = "upgrading"
    /\ upgrade.requests # <<>>
    /\ Head(upgrade.requests) = "settings.get"
    /\ LET ppnSetting == {r \in settings : r.key = "storePpn"}
       IN  IF \E r \in ppnSetting : r.value > 0
           THEN LET r == CHOOSE r \in ppnSetting : TRUE
                IN  /\ fees' = fees \cup {PpnFee(keyGen.fees + 1, r.value)}
                    /\ keyGen' = [keyGen EXCEPT !.fees = @ + 1]
                    /\ settings' = settings \ ppnSetting
           ELSE UNCHANGED <<fees, keyGen, settings>>
    /\ upgrade' = [upgrade EXCEPT !.requests = Tail(@)]
    /\ UNCHANGED <<products, categories, transactions, sync_queue, lastSync, memory,
                   handlers, history, mergeRun, paymentModal, deleteOp, feeEdit,
                   cartOps, catalogOp, oldVersion>>

(* the upgrade transaction has no request left and commits: the database   *)
(* has the new version and request.onsuccess resolves initDB               *)
upgradeComplete ==
    /\ upgrade.pc = "upgrading"
    /\ upgrade.requests \in {<<>>, <<"oncomplete">>}
    /\ oldVersion' = SchemaVersion
    /\ upgrade' = [upgrade EXCEPT !.pc = "open"]
    /\ UNCHANGED <<stores, memory, handlers, history, mergeRun, paymentModal,
                   deleteOp, feeEdit, cartOps, catalogOp, settings>>

(* the page is closed before the upgrade transaction has committed: the    *)
(* transaction is aborted and the database is as it was, at its old version *)
upgradeAborted ==
    /\ upgrade.pc = "upgrading"
    /\ categories' = upgrade.before.categories
    /\ fees' = upgrade.before.fees
    /\ settings' = upgrade.before.settings
    /\ keyGen' = upgrade.before.keyGen
    /\ upgrade' = [upgrade EXCEPT !.pc = "closed", !.schema = SchemaAt(oldVersion),
                                  !.steps = <<>>, !.requests = <<>>]
    /\ UNCHANGED <<products, transactions, sync_queue, lastSync, memory, handlers,
                   history, mergeRun, paymentModal, deleteOp, feeEdit, cartOps,
                   catalogOp, oldVersion>>

(* initDB().then: applyDefaultFees loads the default fees into the cart *)
loadPage ==
    /\ upgrade.pc = "open"
    /\ cart' = [cart EXCEPT !.fees = DefaultFees(GetAll(fees))]
    /\ upgrade' = [upgrade EXCEPT !.pc = "loaded"]
    /\ UNCHANGED <<stores, isOnline, isSyncing, mockServerData, now, handlers,
                   history, mergeRun, paymentModal, deleteOp, feeEdit, cartOps,
                   catalogOp, settings, oldVersion>>

---------------------------------------------------------------------------
(* The state after the page has loaded on a database in use: two products  *)
(* created and pushed in an earlier session, the three categories of the   *)
(* version 5 migration, two fees, and the default fees in the cart.        *)

InitProducts ==
    {Product(1, "Kopi", 10000, 10, 2, None, 101, 1),
     Product(2, "Roti", 20000, 0, 1, None, 102, 1)}

InitCategories ==
    {Category(1, "Makanan", None, None), Category(2, "Minuman", None, None),
     Category(3, "Lainnya", None, None)}

InitFees == {Fee(1, "percentage", 10, TRUE), Fee(2, "fixed", 5000, FALSE)}

(* mockServerData as the script defines it when the page loads at time t *)
NoMergeRun ==
    [runs |-> 0, delta |-> NoUpdates, aborted |-> FALSE,
     before |-> [products |-> {}, categories |-> {}],
     once |-> [products |-> {}, categories |-> {}]]

Init ==
    /\ products = InitProducts
    /\ categories = InitCategories
    /\ transactions = {}
    /\ fees = InitFees
    /\ sync_queue = {}
    /\ lastSync = 1
    /\ keyGen = [products |-> 2, categories |-> 3, transactions |-> 0,
                 fees |-> 2, sync_queue |-> 0]
    /\ cart = [items |-> <<>>,
               fees |-> SelectSeq(GetAll(InitFees), LAMBDA f : f.isDefault)]
    /\ isOnline \in BOOLEAN
    /\ isSyncing = FALSE
    /\ now = 2
    /\ mockServerData = MockServerData(2)
    /\ addOp = IdleAdd
    /\ checkout = IdleCheckout
    /\ paymentModal = ClosedPayment
    /\ deleteOp = IdleDeleteOp
    /\ feeEdit = IdleFeeEdit
    /\ addOp2 = IdleAdd
    /\ clearOp = IdleFeeOp
    /\ catalogOp = IdleCatalog
    /\ settings = {}
    /\ oldVersion = SchemaVersion
    /\ upgrade = PageLoaded
    /\ stockOp = IdleStockOp
    /\ feeOp = IdleFeeOp
    /\ cycles = [c \in CycleIds |-> IdleCycle]
    /\ dataOp = IdleDataOp
    /\ cyc = NewCyc
    /\ acked = {}
    /\ mergeRun = NoMergeRun

(* The cashier's side: cart, checkout and manual stock adjustment *)
NextCheckout ==
    \/ \E pid \in ProductKeys : addToCart(pid)
    \/ addToCartResume
    \/ \E pid \in ProductKeys, change \in {-1, 1} : updateCartItemQuantity(pid, change)
    \/ \E sel \in SUBSET {f.id : f \in fees} : applySelectedFees(sel)
    \/ feeOpResume
    \/ \E cashPaid \in CashInputs : completeTransaction(cashPaid)
    \/ checkoutQueueTransaction
    \/ checkoutNextItem
    \/ checkoutPutStock
    \/ checkoutQueueStock
    \/ startNewTransaction

InitOffline == Init /\ isOnline = FALSE

(* Selling while offline: cart, fees and checkout *)
SpecCheckout == InitOffline /\ [][NextCheckout]_vars

NextStock ==
    \/ \E pid \in ProductKeys : addToCart(pid)
    \/ addToCartResume
    \/ \E pid \in ProductKeys, change \in {-1, 1} : updateCartItemQuantity(pid, change)
    \/ feeOpResume
    \/ completeTransaction(CashTendered)
    \/ checkoutQueueTransaction
    \/ checkoutNextItem
    \/ checkoutPutStock
    \/ checkoutQueueStock
    \/ startNewTransaction
    \/ \E kind \in {"increase", "decrease"}, pid \in ProductKeys : adjustStock(kind, pid)
    \/ adjustStockPut
    \/ adjustStockQueue
    \/ adjustStockDone

(* Selling while offline with the stock buttons of the product list in use *)
SpecStock == InitOffline /\ [][NextStock]_vars

---------------------------------------------------------------------------
(* The cashier screen as the user reaches it: the cart is edited while the *)
(* payment dialog is hidden, the dialog opens on a cart with items, and    *)
(* completeTransaction runs by a click on the dialog's enabled button.     *)
(* Products are deleted on the products page while the dialog is hidden.   *)

NextPay ==
    \/ \E pid \in ProductKeys : ~paymentModal.open /\ addToCart(pid)
    \/ addToCartResume
    \/ \E pid \in ProductKeys, change \in {-1, 1} :
          ~paymentModal.open /\ updateCartItemQuantity(pid, change)
    \/ showPaymentModal
    \/ closePaymentModal
    \/ \E cashPaid \in CashInputs : cashPaidInput(cashPaid)
    \/ completeTransactionButton
    \/ checkoutQueueTransaction
    \/ checkoutNextItem
    \/ checkoutPutStock
    \/ checkoutQueueStock
    \/ startNewTransaction
    \/ feeOpResume
    \/ \E id \in ProductKeys : deleteProduct(id)
    \/ deleteProductDelete
    \/ deleteProductQueue
    \/ adjustStockDone

SpecPay == InitOffline /\ [][NextPay]_vars

(* The cashier page and the settings page: fees are selected for the cart, *)
(* added to and deleted from the fee store, and every return to the        *)
(* cashier page reconciles the cart's fees.                                *)
NextFees ==
    \/ \E id \in {f.id : f \in fees} : applySelectedFees({id})
    \/ feeOpResume
    \/ reconcileCartFees
    \/ reconcileResume
    \/ \E isDefault \in BOOLEAN : addFee("fixed", 2000, isDefault)
    \/ \E id \in {f.id : f \in fees} : deleteFee(id)
    \/ deleteFeeDelete
    \/ feeEditQueue
    \/ feeEditDone

SpecFees == InitOffline /\ [][NextFees]_vars

NextClear ==
    \/ \E pid \in ProductKeys : addToCart(pid)
    \/ addToCartResume
    \/ \E id \in {f.id : f \in fees} : applySelectedFees({id})
    \/ feeOpResume
    \/ clearCart
    \/ clearCartFees
    \/ \E isDefault \in BOOLEAN : addFee("fixed", 2000, isDefault)
    \/ \E id \in {f.id : f \in fees} : deleteFee(id)
    \/ deleteFeeDelete
    \/ feeEditQueue
    \/ feeEditDone

(* Emptying the cart while fees are selected and the fee list is edited *)
SpecClear == InitOffline /\ [][NextClear]_vars

(* The page loaded on a database that holds these products and           *)
(* categories, nothing sold and nothing queued, the server holding this    *)
(* data                                                                    *)
Opened(prods, cats, feeStore, server, online) ==
    /\ products = prods
    /\ categories = cats
    /\ transactions = {}
    /\ fees = feeStore
    /\ sync_queue = {}
    /\ lastSync = 1
    /\ keyGen = [products |-> KeyGenAfter(0, prods), categories |-> KeyGenAfter(0, cats),
                 transactions |-> 0, fees |-> KeyGenAfter(0, feeStore), sync_queue |-> 0]
    /\ isOnline = online
    /\ isSyncing = FALSE
    /\ now = 2
    /\ mockServerData = server
    /\ addOp = IdleAdd
    /\ checkout = IdleCheckout
    /\ paymentModal = ClosedPayment
    /\ deleteOp = IdleDeleteOp
    /\ feeEdit = IdleFeeEdit
    /\ addOp2 = IdleAdd
    /\ clearOp = IdleFeeOp
    /\ catalogOp = IdleCatalog
    /\ stockOp = IdleStockOp
    /\ feeOp = IdleFeeOp
    /\ cycles = [c \in CycleIds |-> IdleCycle]
    /\ dataOp = IdleDataOp
    /\ cyc = NewCyc
    /\ acked = {}

(* ... the database at the current version and the default fees in the cart *)
Loaded(prods, cats, server, online) ==
    /\ Opened(prods, cats, InitFees, server, online)
    /\ mergeRun = NoMergeRun
    /\ cart = [items |-> <<>>, fees |-> DefaultFees(GetAll(InitFees))]
    /\ settings = {}
    /\ oldVersion = SchemaVersion
    /\ upgrade = PageLoaded

(* The cashier fills the cart, tapping a product again before the first    *)
(* tap has been answered, and checks out once.  Kopi costs 10000 with 10   *)
(* percent off and is in stock five times; Roti is in stock once or not at *)
(* all; the cart carries the default fee of 10 percent.                    *)
InitCart ==
    \E stock \in {0, 1} :
        Loaded({Product(1, "Kopi", 10000, 10, 5, None, 101, 1),
                Product(2, "Roti", 20000, 0, stock, None, 102, 1)},
               InitCategories, MockServerData(2), FALSE)

NextCart ==
    \/ \E pid \in ProductKeys : addToCart(pid)
    \/ addToCartResume
    \/ \E pid \in ProductKeys : addToCartAgain(pid)
    \/ addToCartAgainResume
    \/ \E pid \in ProductKeys, change \in {-1, 1} : updateCartItemQuantity(pid, change)
    \/ addOp2.pc = "idle" /\ completeTransaction(CashTendered)
    \/ checkoutQueueTransaction
    \/ checkoutNextItem
    \/ checkoutPutStock
    \/ checkoutQueueStock

SpecCart == InitCart /\ [][NextCart]_vars

(* The versions a database on disk can have; version 1 had no upgrade     *)
(* handler in this script                                                  *)
StoredVersions == {0} \cup 2..SchemaVersion

(* A database of a stored version as an earlier release left it: products  *)
(* that name their category, the categories made of them from version 5,  *)
(* the two fees from version 7, and a storePpn setting of 10, of 0 or none *)
InitUpgrade ==
    \E v \in StoredVersions,
       old \in {{}, {[key |-> "storePpn", value |-> 0]}, {[key |-> "storePpn", value |-> 10]}} :
        LET prods == IF v < 2 THEN {}
                     ELSE {[Product(1, "Kopi", 10000, 10, 2, None, None, None)
                               EXCEPT !.category = "Minuman"],
                           [Product(2, "Roti", 20000, 0, 1, None, None, None)
                               EXCEPT !.category = " Kue"]}
            cats == IF v < 5 THEN {} ELSE PopulatedCategories(ExistingCategories(prods), 0)
        IN  /\ Opened(prods, cats, IF v < 7 THEN {} ELSE InitFees, MockServerData(2), FALSE)
            /\ cart = [items |-> <<>>, fees |-> <<>>]
            /\ mergeRun = NoMergeRun
            /\ settings = (IF v < 2 THEN {} ELSE old)
            /\ oldVersion = v
            /\ upgrade = [PageLoaded EXCEPT !.pc = "closed", !.schema = SchemaAt(v)]

NextUpgrade ==
    \/ openDatabase
    \/ upgradeProductsRead
    \/ upgradeSettingRead
    \/ upgradeComplete
    \/ upgradeAborted
    \/ loadPage
    \/ upgrade.pc = "loaded" /\ \E pid \in ProductKeys : addToCart(pid)
    \/ addToCartResume

(* The page opens a database of an earlier version *)
SpecUpgrade == InitUpgrade /\ [][NextUpgrade]_vars

NextSchema ==
    \/ openDatabase
    \/ openDatabaseIndexJs
    \/ upgradeProductsRead
    \/ upgradeSettingRead
    \/ upgradeComplete
    \/ upgradeAborted
    \/ defaultCategories
    \/ loadPage

(* The database of an earlier version is opened by this script or by the   *)
(* script of src/index.js                                                  *)
SpecSchema == InitUpgrade /\ [][NextSchema]_vars

NextTotals ==
    \/ \E pid \in ProductKeys : addToCart(pid)
    \/ addToCartResume
    \/ \E sel \in SUBSET {f.id : f \in fees} : applySelectedFees(sel)
    \/ feeOpResume
    \/ completeTransaction(CashTendered)
    \/ checkoutQueueTransaction
    \/ checkoutNextItem
    \/ checkoutPutStock
    \/ checkoutQueueStock

(* Carts of discounted and undiscounted lines under every fee selection,   *)
(* and their checkout                                                      *)
SpecTotals == InitCart /\ [][NextTotals]_vars

(* A session that sold one Kopi while offline: the sale and its stock      *)
(* change wait in the queue                                                *)
OfflineSale ==
    BuildTransaction([items |-> <<[LineItem(Product(1, "Kopi", 10000, 10, 2, None, 101, 1))
                                     EXCEPT !.quantity = 1]>>,
                      fees |-> SelectSeq(GetAll(InitFees), LAMBDA f : f.isDefault)],
                     CashTendered, 1)

InitSync ==
    /\ products = {Product(1, "Kopi", 10000, 10, 1, None, 101, 1),
                   Product(2, "Roti", 20000, 0, 1, None, 102, 1)}
    /\ categories = InitCategories
    /\ transactions = {[OfflineSale EXCEPT !.id = 1]}
    /\ fees = InitFees
    /\ sync_queue = {SyncQueueEntry(1, "CREATE_TRANSACTION", 1),
                     SyncQueueEntry(2, "UPDATE_PRODUCT", 1)}
    /\ lastSync = 1
    /\ keyGen = [products |-> 2, categories |-> 3, transactions |-> 1,
                 fees |-> 2, sync_queue |-> 2]
    /\ cart = [items |-> <<>>,
               fees |-> SelectSeq(GetAll(InitFees), LAMBDA f : f.isDefault)]
    /\ isOnline = FALSE
    /\ isSyncing = FALSE
    /\ now = 2
    /\ mockServerData = MockServerData(2)
    /\ addOp = IdleAdd
    /\ checkout = IdleCheckout
    /\ paymentModal = ClosedPayment
    /\ deleteOp = IdleDeleteOp
    /\ feeEdit = IdleFeeEdit
    /\ addOp2 = IdleAdd
    /\ clearOp = IdleFeeOp
    /\ catalogOp = IdleCatalog
    /\ settings = {}
    /\ oldVersion = SchemaVersion
    /\ upgrade = PageLoaded
    /\ stockOp = IdleStockOp
    /\ feeOp = IdleFeeOp
    /\ cycles = [c \in CycleIds |-> IdleCycle]
    /\ dataOp = IdleDataOp
    /\ cyc = NewCyc
    /\ acked = {}
    /\ mergeRun = NoMergeRun

NextSync ==
    \/ \E kind \in {"increase", "decrease"}, pid \in ProductKeys : adjustStock(kind, pid)
    \/ adjustStockPut
    \/ adjustStockQueue
    \/ adjustStockDone
    \/ syncManual
    \/ syncTimer
    \/ \E online \in BOOLEAN : checkOnlineStatus(online)
    \/ \E c \in CycleIds : syncReadQueue(c)
    \/ \E c \in CycleIds, success \in BOOLEAN : syncApiResponse(c, success)
    \/ \E c \in CycleIds : syncWriteBack(c)
    \/ \E c \in CycleIds : syncRemoveTask(c)
    \/ \E c \in CycleIds : syncFetch(c)
    \/ \E c \in CycleIds : syncFetched(c)
    \/ \E c \in CycleIds : syncLocalProducts(c)
    \/ \E c \in CycleIds : syncMerge(c)
    \/ \E c \in CycleIds : syncDone(c)

(* Going online and offline with a queue to drain *)
SpecSync == InitSync /\ [][NextSync]_vars

(* The same queue, with the device going online and staying online and    *)
(* every remote call answered with success.  The continuations of the      *)
(* handlers and of the sync cycle are run by the event loop once they are  *)
(* ready, which is weak fairness of each step; the user's gestures and the *)
(* online event are not fair.                                              *)
NextLive ==
    \/ \E kind \in {"increase", "decrease"}, pid \in ProductKeys : adjustStock(kind, pid)
    \/ adjustStockPut
    \/ adjustStockQueue
    \/ adjustStockDone
    \/ checkOnlineStatus(TRUE)
    \/ \E c \in CycleIds : syncReadQueue(c)
    \/ \E c \in CycleIds : syncApiResponse(c, TRUE)
    \/ \E c \in CycleIds : syncWriteBack(c)
    \/ \E c \in CycleIds : syncRemoveTask(c)
    \/ \E c \in CycleIds : syncFetch(c)
    \/ \E c \in CycleIds : syncFetched(c)
    \/ \E c \in CycleIds : syncLocalProducts(c)
    \/ \E c \in CycleIds : syncMerge(c)
    \/ \E c \in CycleIds : syncDone(c)

EventLoopFair ==
    /\ WF_vars(adjustStockPut)
    /\ WF_vars(adjustStockQueue)
    /\ WF_vars(adjustStockDone)
    /\ \A c \in CycleIds :
          /\ WF_vars(syncReadQueue(c))
          /\ WF_vars(syncApiResponse(c, TRUE))
          /\ WF_vars(syncWriteBack(c))
          /\ WF_vars(syncRemoveTask(c))
          /\ WF_vars(syncFetch(c))
          /\ WF_vars(syncFetched(c))
          /\ WF_vars(syncLocalProducts(c))
          /\ WF_vars(syncMerge(c))
          /\ WF_vars(syncDone(c))

SpecLive == InitSync /\ [][NextLive]_vars /\ EventLoopFair

(* A database that holds one earlier sale, of one Kopi or of one Kopi and  *)
(* one Roti, whose stock the sale has lowered; products are adjusted and   *)
(* deleted on the products page, and the sale is deleted from the report.  *)

SaleOfBoth ==
    BuildTransaction([items |-> <<[LineItem(Product(1, "Kopi", 10000, 10, 2, None, 101, 1))
                                     EXCEPT !.quantity = 1],
                                  [LineItem(Product(2, "Roti", 20000, 0, 1, None, 102, 1))
                                     EXCEPT !.quantity = 1]>>,
                      fees |-> DefaultFees(GetAll(InitFees))],
                     CashTendered, 1)

(* the products store after the sale in txn was checked out *)
InitProductsAfter(txn) ==
    {IF \E i \in 1..Len(txn.items) : txn.items[i].id = p.id
     THEN LET i == CHOOSE i \in 1..Len(txn.items) : txn.items[i].id = p.id
          IN  [p EXCEPT !.stock = StockAfterSale(p.stock, txn.items[i].quantity)]
     ELSE p : p \in InitProducts}

InitUndo ==
    /\ \E sale \in {OfflineSale, SaleOfBoth} :
          /\ transactions = {[sale EXCEPT !.id = 1]}
          /\ products = InitProductsAfter(sale)
    /\ categories = InitCategories
    /\ fees = InitFees
    /\ sync_queue = {}
    /\ lastSync = 1
    /\ keyGen = [products |-> 2, categories |-> 3, transactions |-> 1,
                 fees |-> 2, sync_queue |-> 0]
    /\ cart = [items |-> <<>>, fees |-> DefaultFees(GetAll(InitFees))]
    /\ isOnline = FALSE
    /\ isSyncing = FALSE
    /\ now = 2
    /\ mockServerData = MockServerData(2)
    /\ addOp = IdleAdd
    /\ checkout = IdleCheckout
    /\ paymentModal = ClosedPayment
    /\ deleteOp = IdleDeleteOp
    /\ feeEdit = IdleFeeEdit
    /\ addOp2 = IdleAdd
    /\ clearOp = IdleFeeOp
    /\ catalogOp = IdleCatalog
    /\ settings = {}
    /\ oldVersion = SchemaVersion
    /\ upgrade = PageLoaded
    /\ stockOp = IdleStockOp
    /\ feeOp = IdleFeeOp
    /\ cycles = [c \in CycleIds |-> IdleCycle]
    /\ dataOp = IdleDataOp
    /\ cyc = NewCyc
    /\ acked = {}
    /\ mergeRun = NoMergeRun

NextUndo ==
    \/ \E id \in {t.id : t \in transactions} : deleteTransaction(id)
    \/ deleteTransactionRun
    \/ \E kind \in {"increase", "decrease"}, pid \in ProductKeys :
          adjustStock(kind, pid)
    \/ adjustStockPut
    \/ adjustStockQueue
    \/ \E id \in ProductKeys : deleteProduct(id)
    \/ deleteProductDelete
    \/ deleteProductQueue
    \/ adjustStockDone

SpecUndo == InitUndo /\ [][NextUndo]_vars

NextData ==
    \/ \E pid \in ProductKeys \cap {1} : adjustStock("increase", pid)
    \/ adjustStockPut
    \/ adjustStockQueue
    \/ adjustStockDone
    \/ syncManual
    \/ \E online \in BOOLEAN : checkOnlineStatus(online)
    \/ \E c \in CycleIds : syncReadQueue(c)
    \/ \E c \in CycleIds, success \in BOOLEAN : syncApiResponse(c, success)
    \/ \E c \in CycleIds : syncWriteBack(c)
    \/ \E c \in CycleIds : syncRemoveTask(c)
    \/ \E c \in CycleIds : syncFetch(c)
    \/ \E c \in CycleIds : syncFetched(c)
    \/ \E c \in CycleIds : syncLocalProducts(c)
    \/ \E c \in CycleIds : syncMerge(c)
    \/ \E c \in CycleIds : syncDone(c)
    \/ clearAllData
    \/ handleImport
    \/ dataOpResume
    \/ reload

(* The same with the data cleared or a backup imported once *)
SpecData == InitSync /\ [][NextData]_vars

(* A sale is made offline; then the shop goes online and the queue is     *)
(* pushed, while the product that was sold and the fee that was charged    *)
(* are deleted and the cart is filled again; one sale is made.            *)
NextLedger ==
    \/ \E pid \in ProductKeys \cap {1} : addToCart(pid)
    \/ addToCartResume
    \/ feeOpResume
    \/ transactions = {} /\ completeTransaction(CashTendered)
    \/ checkoutQueueTransaction
    \/ checkoutNextItem
    \/ checkoutPutStock
    \/ checkoutQueueStock
    \/ startNewTransaction
    \/ \E id \in ProductKeys \cap {1} : transactions # {} /\ deleteProduct(id)
    \/ deleteProductDelete
    \/ deleteProductQueue
    \/ adjustStockDone
    \/ \E id \in {f.id : f \in fees} \cap {1} : transactions # {} /\ deleteFee(id)
    \/ deleteFeeDelete
    \/ feeEditQueue
    \/ feeEditDone
    \/ checkOnlineStatus(TRUE)
    \/ \E c \in CycleIds : syncReadQueue(c)
    \/ \E c \in CycleIds : syncApiResponse(c, TRUE)
    \/ \E c \in CycleIds : syncWriteBack(c)
    \/ \E c \in CycleIds : syncRemoveTask(c)
    \/ \E c \in CycleIds : syncFetch(c)
    \/ \E c \in CycleIds : syncFetched(c)
    \/ \E c \in CycleIds : syncLocalProducts(c)
    \/ \E c \in CycleIds : syncMerge(c)
    \/ \E c \in CycleIds : syncDone(c)

SpecLedger == InitOffline /\ [][NextLedger]_vars

---------------------------------------------------------------------------
(* The pull merge on drawn inputs: a local store and a delta of the server *)
(* are drawn, and a cycle that nothing interleaves with merges the delta;  *)
(* the next cycle receives the same delta again.                           *)

SeqsUpTo(S, n) == UNION {[1..k -> S] : k \in 0..n}

MergeTimes == {1, 2}

LocalCategoryStores ==
    {one \cup two :
        one \in {{}} \cup {{Category(1, "Makanan", sid, t)} :
                              sid \in {None, ServerCat201, ServerCat201 + 1},
                              t \in {None} \cup MergeTimes},
        two \in {{}, {Category(2, "Lainnya", None, None)},
                 {Category(2, "Lainnya", ServerCat201 + 1, 1)}}}

ServerCategories ==
    [serverId : {ServerCat201, ServerCat201 + 1}, name : {"Lainnya", "Baru"},
     updatedAt : MergeTimes]

LocalProductStores ==
    {one \cup two :
        one \in {{}} \cup {{Product(1, "Kopi", 10000, 10, 2, None, sid, t)} :
                              sid \in {None, 101, 102},
                              t \in {None} \cup MergeTimes},
        two \in {{}, {Product(2, "Roti", 20000, 0, 1, 899, None, None)},
                 {Product(2, "Roti", 20000, 0, 1, 899, 102, 1)}}}

ServerProducts ==
    [serverId : {101, 102}, name : {"Kopi Susu"}, price : {12000},
     discountPercentage : {0}, stock : {5}, barcode : {None, 899},
     updatedAt : MergeTimes]

InitMerge ==
    /\ \/ /\ products = InitProducts
          /\ categories \in LocalCategoryStores
          /\ \E recs \in SeqsUpTo(ServerCategories, MaxDelta),
                del \in {<<>>, <<ServerCat201>>} :
                mergeRun = [NoMergeRun EXCEPT
                               !.delta = [NoUpdates EXCEPT !.categories = recs,
                                                           !.deleted.categories = del]]
       \/ /\ categories = InitCategories
          /\ products \in LocalProductStores
          /\ \E recs \in SeqsUpTo(ServerProducts, MaxDelta), del \in {<<>>, <<101>>} :
                mergeRun = [NoMergeRun EXCEPT
                               !.delta = [NoUpdates EXCEPT !.products = recs,
                                                           !.deleted.products = del]]
    /\ transactions = {}
    /\ fees = InitFees
    /\ sync_queue = {}
    /\ lastSync = None
    /\ keyGen = [products |-> 2, categories |-> 3, transactions |-> 0,
                 fees |-> 2, sync_queue |-> 0]
    /\ cart = [items |-> <<>>,
               fees |-> SelectSeq(GetAll(InitFees), LAMBDA f : f.isDefault)]
    /\ isOnline = TRUE
    /\ isSyncing = FALSE
    /\ now = 2
    /\ mockServerData = mergeRun.delta
    /\ addOp = IdleAdd
    /\ checkout = IdleCheckout
    /\ paymentModal = ClosedPayment
    /\ deleteOp = IdleDeleteOp
    /\ feeEdit = IdleFeeEdit
    /\ addOp2 = IdleAdd
    /\ clearOp = IdleFeeOp
    /\ catalogOp = IdleCatalog
    /\ settings = {}
    /\ oldVersion = SchemaVersion
    /\ upgrade = PageLoaded
    /\ stockOp = IdleStockOp
    /\ feeOp = IdleFeeOp
    /\ cycles = [c \in CycleIds |-> IdleCycle]
    /\ dataOp = IdleDataOp
    /\ cyc = NewCyc
    /\ acked = {}

(* the pull of a cycle, from the reads of the local stores to the merge *)
pullDelta ==
    /\ mergeRun.runs < 2
    /\ LET m == Merge(products, categories, keyGen,
                      GetAll(products), GetAll(categories), mergeRun.delta)
       IN  /\ products' = m.products
           /\ categories' = m.categories
           /\ keyGen' = m.keyGen
           /\ mergeRun' =
                 IF mergeRun.runs = 0
                 THEN [mergeRun EXCEPT
                          !.runs = 1, !.aborted = ~m.ok,
                          !.before = [products |-> products, categories |-> categories],
                          !.once = [products |-> m.products, categories |-> m.categories]]
                 ELSE [mergeRun EXCEPT !.runs = 2]
    /\ UNCHANGED <<transactions, fees, sync_queue, lastSync, memory, handlers,
                   history, modals>>

NextMerge == pullDelta

SpecMerge == InitMerge /\ [][NextMerge]_vars

(* The product list and the category list of a shop that is offline, and  *)
(* what its next pull brings: a product with the barcode of Kopi, or the   *)
(* marker of a deleted category.  Kopi has barcode 899 and category        *)
(* Minuman, Roti no barcode and category Makanan; no product is in         *)
(* category Lainnya.  The database was created by this script, or by the   *)
(* script of src/index.js, which opens the same database at the same       *)
(* version and leaves its barcode index not unique.                        *)
InitCatalog ==
    \E delta \in
          {[NoUpdates EXCEPT
               !.products = <<[serverId |-> 103, name |-> "Kopi Susu", price |-> 12000,
                               discountPercentage |-> 0, stock |-> 5, barcode |-> 899,
                               updatedAt |-> 2]>>],
           [NoUpdates EXCEPT !.deleted.categories = <<ServerCat201 + 1>>]} :
        /\ Opened({[Product(1, "Kopi", 10000, 10, 2, 899, 101, 1)
                       EXCEPT !.category = "Minuman"],
                   [Product(2, "Roti", 20000, 0, 1, None, 102, 1)
                       EXCEPT !.category = "Makanan"]},
                  {Category(1, "Makanan", None, None),
                   Category(2, "Minuman", ServerCat201 + 1, 1),
                   Category(3, "Lainnya", None, None)},
                  InitFees, MockServerData(2), FALSE)
        /\ cart = [items |-> <<>>, fees |-> DefaultFees(GetAll(InitFees))]
        /\ settings = {}
        /\ oldVersion = SchemaVersion
        /\ upgrade \in {PageLoaded,
                        [PageLoaded EXCEPT !.schema = BarcodeIndexNotUnique(@)]}
        /\ mergeRun = [NoMergeRun EXCEPT !.delta = delta]

NextCatalog ==
    \/ \E barcode \in {None, 900},
          category \in {c.name : c \in categories} \cap {"Lainnya"} :
          addProduct(barcode, category)
    \/ addProductPut
    \/ \E id \in ProductKeys \cap {2}, barcode \in {None, 900},
          category \in {c.name : c \in categories} \cap {"Lainnya"} :
          updateProduct(id, barcode, category)
    \/ updateProductGet
    \/ updateProductPut
    \/ \E id \in {c.id : c \in categories} \cap {3} : deleteCategory(id)
    \/ deleteCategoryCheck
    \/ \E confirmed \in BOOLEAN : deleteCategoryAnswer(confirmed)
    \/ deleteCategoryDelete
    \/ \E h \in DOMAIN catalogOp : catalogQueue(h)
    \/ \E h \in DOMAIN catalogOp : catalogDone(h)
    \/ pullDelta

(* Products are added and edited and categories deleted, and the server's  *)
(* changes are merged                                                      *)
SpecCatalog == InitCatalog /\ [][NextCatalog]_vars

---------------------------------------------------------------------------
(* Properties *)

(* C1: checkout is all-or-nothing: after the stock decrement failed for a  *)
(* line item, no product's stock has been decremented by this checkout and *)
(* its Transaction record is not in the transactions store.                *)
(* Checked under SpecCheckout.                                             *)
CheckoutAllOrNothing ==
    checkout.outcome = "failed" =>
        /\ checkout.written = {}
        /\ ~Has(transactions, checkout.txn.id)

(* C2: the stock of every product in the products store is at least zero   *)
(* in every reachable state, however stock adjustments and the checkout of *)
(* an already filled cart interleave.  Checked under SpecStock.            *)
StockNeverNegative == \A p \in products : p.stock >= 0

Pushing(cy) == cy.pc \in {"w_api", "w_getItem", "w_putItem"}

PushInOrder ==
    \A c \in CycleIds :
        Pushing(cycles[c]) => \A e \in sync_queue : e.id >= Task(cycles[c]).id

PushFailureStops ==
    ~cyc.pushFailed /\ cyc'.pushFailed =>
        /\ sync_queue' = sync_queue
        /\ \A c \in CycleIds : ~Pushing(cycles'[c])

(* C3: the push phase sends the entries of sync_queue in insertion order:  *)
(* the entry whose remote call is in flight is never newer than an entry   *)
(* still in the queue, and when a remote call fails the queue is left as   *)
(* it is and no further entry is attempted in that cycle.                  *)
(* Checked under SpecSync.                                                 *)
FifoOutbox == []PushInOrder /\ [][PushFailureStops]_vars

(* C3, its case: the call for the oldest of several queued entries failed, *)
(* the cycle is over and every entry is still queued                       *)
FailedWithLaterEntriesQueued ==
    /\ cyc.pushFailed
    /\ Running = {}
    /\ Cardinality(sync_queue) >= 2
    /\ acked = {}

SingleFlight == Cardinality(Running) <= 1 /\ (isSyncing <=> Running # {})

CycleStarts == \E c \in CycleIds : cycles[c].pc = "idle" /\ cycles'[c].pc # "idle"

BusyOrOfflineTriggerDropped == CycleStarts => ~isSyncing /\ isOnline'

(* C5: at most one sync cycle is in flight at any time, and no step starts *)
(* a cycle while isSyncing is true or while the system is offline: a       *)
(* trigger that arrives then starts nothing.  Checked under SpecSync.      *)
AtMostOneCycleInFlight == []SingleFlight /\ [][BusyOrOfflineTriggerDropped]_vars

(* C5, its case: a cycle is in flight and an entry that was queued after   *)
(* the cycle took its snapshot is in the queue, its handler done: the      *)
(* handler's call of syncWithServer started no second cycle                *)
TriggerWhileBusy ==
    \E c \in Running :
        /\ isOnline
        /\ stockOp.pc = "idle"
        /\ \E e \in sync_queue :
              \A i \in 1..Len(cycles[c].syncQueue) : cycles[c].syncQueue[i].id < e.id

(* C6: in a cycle in which the remote call of a push failed the pull phase *)
(* is never executed, and the cycle is over.  Checked under SpecSync.      *)
NoPullAfterPushFailure ==
    cyc.pushFailed => ~cyc.pulled /\ ~cyc.finalized /\ Running = {} /\ ~isSyncing

(* C6, its case: a push failed after an earlier entry of the same cycle    *)
(* had been acknowledged                                                   *)
PushFailedMidCycle == cyc.pushFailed /\ acked # {} /\ sync_queue # {}

(* C7: lastSync is advanced by a cycle only if no step of the cycle        *)
(* failed: no push failed and the merge transaction was not aborted.       *)
(* Checked under SpecSync.                                                 *)
LastSyncOnlyAfterSuccess ==
    cyc.finalized => ~cyc.pushFailed /\ ~cyc.mergeAborted

RemovedEntries == sync_queue \ sync_queue'

AckedHead(e) == e.id \in acked' /\ \A f \in sync_queue : f.id >= e.id

EverythingCleared ==
    /\ products' = {}
    /\ categories' = {}
    /\ transactions' = {}
    /\ fees' = {}
    /\ sync_queue' = {}
    /\ lastSync' = None

(* C4, as stated: a step removes an entry from sync_queue only if the      *)
(* remote call for that entry was acknowledged, and the entry removed is   *)
(* the oldest one queued.  Checked under SpecData.                         *)
RemovedOnlyAfterAck == [][\A e \in RemovedEntries : AckedHead(e)]_vars

(* C4, amended: the push loop removes an entry only after that entry's     *)
(* remote call was acknowledged, oldest first; the only other removal is   *)
(* clearAllStores (clear all data, import), which empties sync_queue       *)
(* together with every other store.  Checked under SpecData.               *)
RemovedAfterAckOrCleared ==
    [][RemovedEntries # {} =>
          \/ \A e \in RemovedEntries : AckedHead(e)
          \/ EverythingCleared]_vars

(* C4, its case: one entry was acknowledged and removed by the push loop,  *)
(* and clearAllStores then removed an entry that never was                 *)
AckedThenCleared ==
    /\ dataOp.pc = "w_clear"
    /\ acked = {1}
    /\ keyGen.sync_queue >= 2
    /\ sync_queue = {}

(* C8: applying the same pull delta a second time leaves products and     *)
(* categories as the first application left them.                          *)
(* Checked under SpecMerge.                                                *)
MergeIdempotent ==
    mergeRun.runs = 2 =>
        /\ products = mergeRun.once.products
        /\ categories = mergeRun.once.categories

(* The local record a server record's serverId resolves to: of the local   *)
(* records with that serverId the one with the largest key                 *)
MatchedLocals(store) ==
    {l \in store : l.serverId # None
                   /\ \A q \in store : q.serverId = l.serverId => q.id <= l.id}

RemoteValues(kind, l, r) ==
    IF kind = "products"
    THEN Product(l.id, r.name, r.price, r.discountPercentage, r.stock, r.barcode,
                 r.serverId, r.updatedAt)
    ELSE Category(l.id, r.name, r.serverId, r.updatedAt)

LastWriterWins(kind, before, after, recs, deleted) ==
    \A l \in MatchedLocals(before) :
        LET remote == {recs[i] : i \in {j \in 1..Len(recs) : recs[j].serverId = l.serverId}}
            marked == \E i \in 1..Len(deleted) : deleted[i] = l.serverId
        IN  ~marked =>
              /\ Has(after, l.id)
              /\ Get(after, l.id).serverId = l.serverId
              /\ (l.updatedAt # None /\ \A r \in remote : r.updatedAt <= l.updatedAt)
                    => Get(after, l.id) = l
              /\ Get(after, l.id) # l =>
                    \E r \in remote :
                        /\ l.updatedAt = None \/ r.updatedAt > l.updatedAt
                        /\ Get(after, l.id) = RemoteValues(kind, l, r)

(* C9: a local record whose serverId matches pulled records keeps its      *)
(* primary key; it is left unchanged when it has an updatedAt and no       *)
(* matching remote record is strictly newer, and when it is changed it     *)
(* holds the values of a matching remote record that is strictly newer or  *)
(* that met a local record without updatedAt.  Checked under SpecMerge.    *)
OverwriteOnlyIfRemoteNewer ==
    mergeRun.runs >= 1 /\ ~mergeRun.aborted =>
        /\ LastWriterWins("products", mergeRun.before.products, mergeRun.once.products,
                          mergeRun.delta.products, mergeRun.delta.deleted.products)
        /\ LastWriterWins("categories", mergeRun.before.categories,
                          mergeRun.once.categories, mergeRun.delta.categories,
                          mergeRun.delta.deleted.categories)

(* C9, its case: a merge that went through met a local category and a      *)
(* remote one with the same serverId, the same updatedAt and another name, *)
(* and left the local one as it was                                        *)
EqualTimestampKeptLocal ==
    /\ mergeRun.runs = 1
    /\ ~mergeRun.aborted
    /\ \E l \in MatchedLocals(mergeRun.before.categories) :
          /\ l \in categories
          /\ \E i \in 1..Len(mergeRun.delta.categories) :
                LET r == mergeRun.delta.categories[i]
                IN  r.serverId = l.serverId /\ r.updatedAt = l.updatedAt
                    /\ r.name # l.name

---------------------------------------------------------------------------
(* C11: every persisted Transaction has at least one item and a cashPaid   *)
(* that is not below its total: a checkout on an empty cart or with too    *)
(* little cash writes nothing.                                             *)
PersistedSalesValid ==
    \A t \in transactions : Len(t.items) >= 1 /\ t.cashPaid >= t.total

(* C11, the part that holds: through the payment dialog no Transaction     *)
(* without items is persisted.                                             *)
PersistedSalesHaveItems == \A t \in transactions : Len(t.items) >= 1

---------------------------------------------------------------------------
(* The stock loop of the checkout in checkout.txn has met a line item      *)
(* whose product is not in the products store.                             *)
ProductMissingAtCommit ==
    /\ Exists(checkout.txn)
    /\ \E i \in 1..Len(checkout.txn.items) :
          \/ i < checkout.idx /\ checkout.txn.items[i].id \notin checkout.written
          \/ /\ i = checkout.idx
             /\ checkout.pc = "w_get"
             /\ ~Exists(checkout.product)

(* C12: a checkout that meets a line item whose product was deleted fails  *)
(* as a whole: no Transaction record is written and no other line item's   *)
(* stock is decremented.                                                   *)
MissingProductFailsCheckout ==
    ProductMissingAtCommit =>
        /\ ~Has(transactions, checkout.txn.id)
        /\ checkout.written = {}
        /\ checkout.outcome # "completed"

---------------------------------------------------------------------------
(* a step in which the running checkout ends as failed *)
CheckoutFails == checkout.outcome # "failed" /\ checkout'.outcome = "failed"

(* the sync queue entries the checkout in ck has appended *)
QueuedBy(queue, ck) ==
    {e \in queue : \/ e.action = "CREATE_TRANSACTION" /\ e.payloadId = ck.txn.id
                   \/ e.action = "UPDATE_PRODUCT" /\ e.payloadId \in ck.written}

(* the cart half of C13: a failed checkout leaves the cart as it was when  *)
(* the checkout started                                                    *)
FailedCheckoutKeepsCart == [][CheckoutFails => cart' = checkout'.cartBefore]_vars

(* C13: when a checkout ends as failed, the cart is what it was before the *)
(* checkout started and nothing of the checkout persists: no Transaction   *)
(* record, no stock decrement, no sync queue entry.                        *)
FailedCheckoutLeavesNothing ==
    [][CheckoutFails =>
          /\ cart' = checkout'.cartBefore
          /\ ~Has(transactions', checkout'.txn.id)
          /\ checkout'.written = {}
          /\ QueuedBy(sync_queue', checkout') = {}]_vars

---------------------------------------------------------------------------
(* the cart's fee list holds exactly the default fees of the fee store,    *)
(* each once                                                               *)
CartFeesAreDefaults(c, store) ==
    /\ \A f \in store : f.isDefault <=> \E i \in 1..Len(c.fees) : c.fees[i] = f
    /\ \A i \in 1..Len(c.fees) : c.fees[i] \in store
    /\ \A i, j \in 1..Len(c.fees) : c.fees[i].id = c.fees[j].id => i = j

(* C14 as stated: once a checkout is completed the cart has no items and   *)
(* its fee list is exactly the default fees of the fee store.              *)
CompletedCartIsReset ==
    checkout.outcome = "completed" =>
        cart.items = <<>> /\ CartFeesAreDefaults(cart, fees)

(* C14, amended: the cart of a completed checkout is reset by              *)
(* startNewTransaction from the receipt: that step leaves a cart without   *)
(* items and without fees, and when its applyDefaultFees resolves the      *)
(* cart's fee list is exactly the default fees of the fee store while the  *)
(* items stay as they are.                                                 *)
NewTransactionResetsCart ==
    /\ [][checkout.pc = "receipt" /\ checkout'.pc = "idle" => cart' = EmptyCart]_vars
    /\ [][feeOp.pc = "w_default" /\ feeOp'.pc = "idle" =>
            cart'.items = cart.items /\ CartFeesAreDefaults(cart', fees')]_vars

(* a sale with other fees than the default ones was completed and the new  *)
(* transaction's cart has got the default fees                             *)
DefaultFeesAfterSaleWithOthers ==
    /\ checkout.outcome = "completed"
    /\ checkout.pc = "idle"
    /\ feeOp.pc = "idle"
    /\ cart.items = <<>>
    /\ CartFeesAreDefaults(cart, fees)
    /\ ~CartFeesAreDefaults(checkout.cartBefore, fees)

---------------------------------------------------------------------------
(* the sync queue entries appended since the checkout in ck started *)
AppendedSince(queue, ck) == {e \in queue : e.id > ck.queuedBefore}

(* C15: a checkout appends sync queue entries only when it commits, and    *)
(* then one CREATE_TRANSACTION entry and one UPDATE_PRODUCT entry per line *)
(* item, n + 1 in all; a checkout that fails has appended none.            *)
CheckoutEnqueuesOnCommitOnly ==
    /\ [](checkout.pc = "receipt" =>
            LET appended == AppendedSince(sync_queue, checkout)
            IN  /\ Cardinality(appended) = Len(checkout.txn.items) + 1
                /\ Cardinality({e \in appended : e.action = "CREATE_TRANSACTION"}) = 1
                /\ \A i \in 1..Len(checkout.txn.items) :
                      \E e \in appended : /\ e.action = "UPDATE_PRODUCT"
                                          /\ e.payloadId = checkout.txn.items[i].id)
    /\ [][CheckoutFails => AppendedSince(sync_queue', checkout') = {}]_vars

(* the first half alone: a completed checkout has appended n + 1 entries *)
CompletedCheckoutEnqueuesAll ==
    checkout.pc = "receipt" =>
        Cardinality(AppendedSince(sync_queue, checkout)) = Len(checkout.txn.items) + 1

---------------------------------------------------------------------------
(* the step in which deleteTransaction's IndexedDB transaction ends *)
DeleteEnds == deleteOp.pc = "w_get" /\ Exists(deleteOp.txn) /\ deleteOp'.pc = "idle"

(* the record is gone and the stock of every line item's product is       *)
(* raised by the item's quantity, which undoes the decrement of the sale   *)
RecordGoneStockRaised ==
    /\ ~Has(transactions', deleteOp.txn.id)
    /\ \A i \in 1..Len(deleteOp.txn.items) :
          LET item == deleteOp.txn.items[i]
          IN  Has(products, item.id) =>
                 /\ Has(products', item.id)
                 /\ Get(products', item.id).stock = Get(products, item.id).stock + item.quantity
                 /\ StockAfterSale(Get(products', item.id).stock, item.quantity)
                       = Get(products, item.id).stock
    /\ \A p \in products :
          (\A i \in 1..Len(deleteOp.txn.items) : deleteOp.txn.items[i].id # p.id)
             => p \in products'

(* the sync actions of a deletion are in the queue *)
DeletionEnqueued ==
    /\ \E e \in sync_queue' \ sync_queue :
          e.action = "DELETE_TRANSACTION" /\ e.payloadId = deleteOp.txn.id
    /\ \A i \in 1..Len(deleteOp.txn.items) :
          Has(products, deleteOp.txn.items[i].id) =>
             \E e \in sync_queue' \ sync_queue :
                /\ e.action = "UPDATE_PRODUCT_STOCK"
                /\ e.payloadId = deleteOp.txn.items[i].id

(* the stores half of C16: over transactions and products the deletion is  *)
(* all or nothing                                                          *)
DeleteAtomicInStores ==
    [][DeleteEnds =>
          \/ RecordGoneStockRaised
          \/ transactions' = transactions /\ products' = products]_vars

(* C16: deleteTransaction either removes the record, raises the stock of   *)
(* every line item's product by the item's quantity (so that the stock is  *)
(* what it was before the sale) and enqueues the sync actions of it, or    *)
(* changes nothing.                                                        *)
DeleteRestoresOrNothing ==
    [][DeleteEnds =>
          \/ RecordGoneStockRaised /\ DeletionEnqueued
          \/ /\ transactions' = transactions
             /\ products' = products
             /\ sync_queue' = sync_queue]_vars

---------------------------------------------------------------------------
(* the queue holds the entry with key k *)
Queued(queue, k) == \E e \in queue : e.id = k

(* the remote calls in flight are for entries that were put into the queue *)
AttemptsOnlyStored ==
    \A c \in CycleIds :
        \A i \in 1..Len(cycles[c].syncQueue) :
            cycles[c].syncQueue[i].id <= keyGen.sync_queue

(* every entry that was ever put into the queue is in the queue or its     *)
(* remote call was acknowledged                                            *)
NoEntryLost ==
    \A k \in 1..keyGen.sync_queue : Queued(sync_queue, k) \/ k \in acked

---------------------------------------------------------------------------
(* C18: while the device is online and the remote calls succeed, every     *)
(* entry in the queue, one enqueued while a sync cycle was running         *)
(* included, is eventually pushed and removed from the queue.              *)
EveryEntryEventuallyPushed ==
    \A k \in 1..MaxQueueKey :
        (isOnline /\ Queued(sync_queue, k)) ~> ~Queued(sync_queue, k)

(* the entries that were in the queue when the device went online are      *)
(* pushed and removed                                                      *)
QueueAtReconnectDrained ==
    \A k \in 1..2 : (isOnline /\ Queued(sync_queue, k)) ~> ~Queued(sync_queue, k)

---------------------------------------------------------------------------
(* the step in which reconcileCartFees replaces the cart's fee list *)
ReconcileEnds == feeOp.pc = "w_reconcile" /\ feeOp'.pc = "idle"

(* how often the fee with this id is in the list *)
Occurrences(list, id) == Cardinality({i \in 1..Len(list) : list[i].id = id})

Range(list) == {list[i] : i \in 1..Len(list)}

(* C19: for a cart that holds a non-default fee F of the fee store and a   *)
(* default fee D of the store that the cart does not hold,                 *)
(* reconcileCartFees yields a fee list with F exactly once and D exactly   *)
(* once.                                                                   *)
ManualKeptDefaultAdded ==
    [][ReconcileEnds =>
          \A F, D \in Range(feeOp.allFees) :
              /\ ~F.isDefault
              /\ Occurrences(cart.fees, F.id) = 1
              /\ D.isDefault
              /\ Occurrences(cart.fees, D.id) = 0
              => /\ Occurrences(cart'.fees, F.id) = 1
                 /\ Occurrences(cart'.fees, D.id) = 1
                 /\ F \in Range(cart'.fees)
                 /\ D \in Range(cart'.fees)]_vars

(* the cart holds the manually selected non-default fee first and then a   *)
(* default fee that was added to the store later, each once: the list      *)
(* reconcileCartFees has made of a cart with the manual fee                *)
ManualThenLaterDefault ==
    /\ feeOp.pc = "idle"
    /\ Len(cart.fees) >= 2
    /\ cart.fees[1] \in InitFees
    /\ ~cart.fees[1].isDefault
    /\ Occurrences(cart.fees, cart.fees[1].id) = 1
    /\ \E j \in 2..Len(cart.fees) :
          /\ cart.fees[j].isDefault
          /\ cart.fees[j] \notin InitFees
          /\ cart.fees[j] \in fees
          /\ Occurrences(cart.fees, cart.fees[j].id) = 1

---------------------------------------------------------------------------
(* C20: reconcileCartFees keeps every fee of the cart that is in the fee   *)
(* store, as the store holds it, adds every default fee of the store,      *)
(* drops every fee that is not in the store, yields no fee id twice, and   *)
(* is idempotent: reconciling its result against the same store gives the  *)
(* same list.                                                              *)
ReconcileKeepsAddsDropsOnce ==
    [][ReconcileEnds =>
          LET allFees == Range(feeOp.allFees)
          IN  /\ \A f \in allFees :
                    Occurrences(cart.fees, f.id) > 0 => f \in Range(cart'.fees)
              /\ \A f \in allFees : f.isDefault => f \in Range(cart'.fees)
              /\ Range(cart'.fees) \subseteq allFees
              /\ \A f \in Range(cart'.fees) :
                    f.isDefault \/ Occurrences(cart.fees, f.id) > 0
              /\ \A f \in Range(cart'.fees) : Occurrences(cart'.fees, f.id) = 1
              /\ Reconcile(cart'.fees, feeOp.allFees) = cart'.fees]_vars

(* a second reconcileCartFees is about to end on the list the first one    *)
(* made (a manual fee followed by a default fee), the fee store unchanged  *)
ReconciledTwice ==
    /\ feeOp.pc = "w_reconcile"
    /\ feeOp.allFees = GetAll(fees)
    /\ Len(cart.fees) >= 2
    /\ ~cart.fees[1].isDefault
    /\ cart.fees[2].isDefault
    /\ \E i \in 2..Len(cart.fees) : cart.fees[i].id < cart.fees[i - 1].id
    /\ Reconcile(cart.fees, feeOp.allFees) = cart.fees

---------------------------------------------------------------------------
(* the lines of the cart for this product *)
LinesOf(c, pid) == {i \in 1..Len(c.items) : c.items[i].id = pid}

(* the call in op and the overlapping call in other wait for the same      *)
(* product, whose stock is 1 and which the cart does not hold              *)
BothWaitFor(op, other) ==
    /\ op.pc = "w_get"
    /\ other.pc = "w_get"
    /\ op.productId = other.productId
    /\ Lookup(products, op.productId).stock = 1
    /\ LinesOf(cart, op.productId) = {}

OneLineOfOne(c, pid) ==
    /\ Cardinality(LinesOf(c, pid)) = 1
    /\ \A i \in LinesOf(c, pid) : c.items[i].quantity = 1

(* the call in op waits for a product whose stock is 1 and which another   *)
(* call has put into the cart meanwhile                                    *)
LastWaitsFor(op) ==
    /\ op.pc = "w_get"
    /\ Lookup(products, op.productId).stock = 1
    /\ OneLineOfOne(cart, op.productId)

(* C21: two overlapping addToCart calls for a product whose stock is 1,    *)
(* resumed in either order: the call that resumes first puts one line of   *)
(* quantity 1 into the cart, the call that resumes second is refused and   *)
(* leaves the cart as it is, so the cart holds one line of quantity 1.     *)
TwoAddsLeaveOneLine ==
    /\ [][(BothWaitFor(addOp, addOp2) /\ (addOp'.pc = "idle" \/ addOp2'.pc = "idle"))
            => OneLineOfOne(cart', addOp.productId)]_vars
    /\ [][(LastWaitsFor(addOp) /\ addOp'.pc = "idle") => cart' = cart]_vars
    /\ [][(LastWaitsFor(addOp2) /\ addOp2'.pc = "idle") => cart' = cart]_vars

(* C21, its case: the overlapping call for Roti, in stock once, is still   *)
(* waiting while the cart already holds the Roti of the first call         *)
SecondAddStillWaiting ==
    /\ addOp.pc = "idle"
    /\ addOp2.pc = "w_get"
    /\ addOp2.product.stock = 1
    /\ OneLineOfOne(cart, addOp2.productId)

---------------------------------------------------------------------------
(* what addToCart has to leave of cart c for product pid as the products   *)
(* store holds it                                                          *)
AddedOrRefused(c, next, pid) ==
    LET product == Lookup(products, pid)
        held == LinesOf(c, pid)
    IN  IF product.stock = 0
        THEN next = c
        ELSE IF held # {}
             THEN \E i \in held :
                     IF c.items[i].quantity + 1 > product.stock
                     THEN next = c
                     ELSE next = [c EXCEPT !.items[i].quantity = @ + 1]
             ELSE /\ next.fees = c.fees
                  /\ Len(next.items) = Len(c.items) + 1
                  /\ SubSeq(next.items, 1, Len(c.items)) = c.items
                  /\ LET line == next.items[Len(next.items)]
                     IN  /\ line.id = pid
                         /\ line.quantity = 1
                         /\ line.price = product.price
                         /\ line.discountPercentage = product.discountPercentage

(* C22: addToCart leaves the cart unchanged when the product's stock is 0  *)
(* (OutOfStock) and when the cart holds the product and one more would     *)
(* exceed the product's stock (InsufficientStock); otherwise it raises the *)
(* quantity of the line it holds by one, or appends one line of quantity 1 *)
(* with the product's price and discount.                                  *)
AddToCartChecksStock ==
    /\ [][addOp.pc = "w_get" /\ addOp'.pc = "idle"
            => AddedOrRefused(cart, cart', addOp.productId)]_vars
    /\ [][addOp2.pc = "w_get" /\ addOp2'.pc = "idle"
            => AddedOrRefused(cart, cart', addOp2.productId)]_vars

(* C22, its cases: a call is waiting for a product that is out of stock,  *)
(* and the cart holds a product as often as it is in stock                 *)
OutOfStockTapped ==
    /\ addOp.pc = "w_get"
    /\ addOp.product.stock = 0
    /\ \E i \in 1..Len(cart.items) :
          cart.items[i].quantity = Lookup(products, cart.items[i].id).stock

---------------------------------------------------------------------------
(* the items and fees of the scenario: one line of two pieces at 10000     *)
(* with 10 percent off, and one percentage fee of 10                       *)
TwoDiscountedOneFee(items, feeList) ==
    /\ Len(items) = 1
    /\ items[1].price = 10000
    /\ items[1].discountPercentage = 10
    /\ items[1].quantity = 2
    /\ Len(feeList) = 1
    /\ feeList[1].type = "percentage"
    /\ feeList[1].value = 10

(* what the cart display shows for the scenario *)
ScenarioDisplayed ==
    TwoDiscountedOneFee(cart.items, cart.fees) =>
        /\ cart.items[1].effectivePrice = 9000
        /\ CartSubtotal(cart) = 18000
        /\ CartFeeAmount(cart.fees[1], CartSubtotal(cart)) = 1800
        /\ CartTotal(cart) = 19800

(* C23 as stated: the Transaction persisted for the scenario records       *)
(* subtotal 18000, discount 2000, fee amount 1800 and total 19800, which   *)
(* are also what the cart shows.                                           *)
ScenarioRecordedAsDisplayed ==
    /\ ScenarioDisplayed
    /\ \A t \in transactions :
          TwoDiscountedOneFee(t.items, t.fees) =>
              /\ t.subtotal = 18000
              /\ t.totalDiscount = 2000
              /\ t.fees[1].amount = 1800
              /\ t.total = 19800

(* C23, amended: for the scenario the cart shows subtotal 18000 (2 x 9000), *)
(* fee 1800 and total 19800; the Transaction persisted for it records the  *)
(* subtotal on the original price, 20000, the discount 2000, the fee       *)
(* amount 1800 on 20000 - 2000, and the total 19800.                       *)
ScenarioRecordedGross ==
    /\ ScenarioDisplayed
    /\ \A t \in transactions :
          TwoDiscountedOneFee(t.items, t.fees) =>
              /\ t.subtotal = 20000
              /\ t.totalDiscount = 2000
              /\ t.subtotal - t.totalDiscount = 18000
              /\ t.fees[1].amount = 1800
              /\ t.total = 19800

(* C23, its case: Kopi, in stock five times, was added twice and the sale  *)
(* is completed                                                            *)
ScenarioCheckedOut ==
    /\ checkout.pc = "receipt"
    /\ TwoDiscountedOneFee(cart.items, cart.fees)
    /\ cart.items[1].stock = 5
    /\ \E t \in transactions : TwoDiscountedOneFee(t.items, t.fees)

---------------------------------------------------------------------------
(* The sums of the claim, written out over the lines of a cart *)
SumOver(items, Term(_)) == SumSeq([i \in 1..Len(items) |-> Term(items[i])])

(* sum of effectivePrice x quantity *)
NetOfLines(items) == SumOver(items, LAMBDA it : it.effectivePrice * it.quantity)

(* sum of unitPrice x quantity *)
GrossOfLines(items) == SumOver(items, LAMBDA it : it.price * it.quantity)

(* sum of unitPrice x discountPct/100 x quantity *)
DiscountOfLines(items) ==
    SumOver(items, LAMBDA it : ((it.price * it.discountPercentage) \div 100) * it.quantity)

(* (base x value/100) for a percentage fee, value for a fixed one *)
FeeOn(fee, base) ==
    IF fee.type = "percentage" THEN (base * fee.value) \div 100 ELSE fee.value

FeesOn(feeList, base) == SumOver(feeList, LAMBDA fee : FeeOn(fee, base))

(* the record t holds the totals of the claim for the cart c *)
RecordedAsClaimed(t, c) ==
    /\ t.subtotal = NetOfLines(c.items)
    /\ t.totalDiscount = DiscountOfLines(c.items)
    /\ \A i \in 1..Len(c.fees) :
          t.fees[i].amount = FeeOn(c.fees[i], NetOfLines(c.items) - DiscountOfLines(c.items))
    /\ t.total = NetOfLines(c.items) - DiscountOfLines(c.items)
                   + FeesOn(c.fees, NetOfLines(c.items) - DiscountOfLines(c.items))

(* the cart display shows the totals of the claim for the cart c *)
DisplayedAsClaimed(c) ==
    /\ CartSubtotal(c) = NetOfLines(c.items)
    /\ \A i \in 1..Len(c.fees) :
          CartFeeAmount(c.fees[i], CartSubtotal(c))
             = FeeOn(c.fees[i], NetOfLines(c.items) - DiscountOfLines(c.items))
    /\ CartTotal(c) = NetOfLines(c.items) - DiscountOfLines(c.items)
                        + FeesOn(c.fees, NetOfLines(c.items) - DiscountOfLines(c.items))

RecordedOnUnitPrices(t, c) ==
    /\ t.subtotal = GrossOfLines(c.items)
    /\ t.totalDiscount = DiscountOfLines(c.items)
    /\ Len(t.fees) = Len(c.fees)
    /\ \A i \in 1..Len(c.fees) :
          t.fees[i].amount = FeeOn(c.fees[i], GrossOfLines(c.items) - DiscountOfLines(c.items))
    /\ t.total = GrossOfLines(c.items) - DiscountOfLines(c.items)
                   + FeesOn(c.fees, GrossOfLines(c.items) - DiscountOfLines(c.items))

(* the display shows for the cart c: subtotal on the effective prices, the *)
(* fee amounts on it, and their sum                                        *)
DisplayedOnEffectivePrices(c) ==
    /\ CartSubtotal(c) = NetOfLines(c.items)
    /\ NetOfLines(c.items) = GrossOfLines(c.items) - DiscountOfLines(c.items)
    /\ \A i \in 1..Len(c.fees) :
          CartFeeAmount(c.fees[i], CartSubtotal(c)) = FeeOn(c.fees[i], NetOfLines(c.items))
    /\ CartTotal(c) = NetOfLines(c.items) + FeesOn(c.fees, NetOfLines(c.items))

---------------------------------------------------------------------------
(* clearCart was confirmed in this step *)
ClearConfirmed == clearOp.pc = "idle" /\ clearOp'.pc = "w_default"

(* the reload of the default fees that clearCart started resumed in this step *)
ClearReloaded == clearOp.pc = "w_default" /\ clearOp'.pc = "idle"

---------------------------------------------------------------------------
(* the setting storePpn of a settings store, as a set *)
StorePpn(store) == {r \in store : r.key = "storePpn"}

(* C26: when a database that holds the setting storePpn with a value       *)
(* above 0 (10 in the scenario) has been upgraded to version 7, from       *)
(* version 6 or a lower one, its fee store holds one new fee, named PPN,   *)
(* of type percentage, of that value, default and tax, and the storePpn    *)
(* setting is gone; both are done by the upgrade transaction: when it is   *)
(* aborted, the fee store and the settings are as they were.               *)
UpgradeMovesPpnToFee ==
    \A r \in StorePpn(upgrade.before.settings) :
        r.value > 0 =>
            \/ upgrade.pc = "upgrading"
            \/ /\ upgrade.pc = "closed"
               /\ oldVersion < 7
               /\ fees = upgrade.before.fees
               /\ settings = upgrade.before.settings
            \/ /\ upgrade.pc \in {"open", "loaded"}
               /\ oldVersion = 7
               /\ fees = upgrade.before.fees
                           \cup {PpnFee(upgrade.before.keyGen.fees + 1, r.value)}
               /\ settings = upgrade.before.settings \ {r}

(* C26, its case: a database of version 6 with storePpn = 10 has been      *)
(* upgraded and the page has loaded the PPN fee into the cart              *)
UpgradedFromSixWithPpn ==
    /\ upgrade.pc = "loaded"
    /\ upgrade.steps = <<7>>
    /\ StorePpn(upgrade.before.settings) = {[key |-> "storePpn", value |-> 10]}
    /\ \E i \in 1..Len(cart.fees) : cart.fees[i] = PpnFee(cart.fees[i].id, 10)

---------------------------------------------------------------------------
(* C27: every category that a product references is in the categories     *)
(* store, whatever interleaving of deleteCategory (check, confirmation,    *)
(* delete), product creation and edit and the deletions of a sync cycle.   *)
ReferencedCategoryExists ==
    \A p \in products :
        p.category # "" => \E c \in categories : c.name = p.category

(* C28: in every reachable state no two products hold the same non-empty  *)
(* barcode, whatever addProduct, updateProduct and the merge of a sync     *)
(* cycle do and however their steps interleave.                            *)
BarcodesUnique ==
    \A p, q \in products :
        (p.id # q.id /\ p.barcode # None) => p.barcode # q.barcode

---------------------------------------------------------------------------
(* C29: no stock update is lost: every step that writes the stock of a     *)
(* product changes the stored stock by exactly the change of the operation *)
(* that writes (minus the quantity of the item for the stock loop of the   *)
(* checkout, plus or minus one for the stock buttons), however the steps   *)
(* of the two handlers interleave; the final stock is then the initial     *)
(* stock plus the sum of the changes.                                      *)
StockUpdatesAccumulate ==
    [][\A pid \in ProductKeys :
          LET before == Lookup(products, pid).stock
              after == Lookup(products', pid).stock
          IN  after # before =>
                after - before =
                   IF stockOp' # stockOp
                   THEN IF stockOp.kind = "increase" THEN 1 ELSE -1
                   ELSE -cart.items[checkout.idx].quantity]_vars

---------------------------------------------------------------------------
(* what a transaction record keeps of the sale *)
SaleOf(t) ==
    [items |-> t.items, subtotal |-> t.subtotal, totalDiscount |-> t.totalDiscount,
     fees |-> t.fees, total |-> t.total]

(* C30: a transaction record is immutable once written: no step changes    *)
(* the item snapshots, subtotal, discount, fees or total of a record that  *)
(* is in the transactions store, whether the step deletes the product it   *)
(* references, deletes the fee it charged, fills or clears the cart, or is *)
(* a step of a sync cycle, the write-back of the serverId included.        *)
TransactionImmutable ==
    [][\A t \in transactions : \A u \in transactions' :
          u.id = t.id => SaleOf(u) = SaleOf(t)]_vars

(* C30, its case: the write-back of a sync cycle has put the transaction   *)
(* again, with its serverId, after the product it sold and the fee it      *)
(* charged were deleted                                                    *)
TransactionWrittenBack ==
    \E t \in transactions :
        /\ t.serverId # None
        /\ t.fees # <<>>
        /\ \A i \in 1..Len(t.items) : ~\E p \in products : p.id = t.items[i].id
        /\ \A i \in 1..Len(t.fees) : ~\E f \in fees : f.id = t.fees[i].id

---------------------------------------------------------------------------
(* the serverId of every record of the four stores that carry one *)
ServerIdsOf(prods, cats, txns, feeStore) ==
    [store \in {"products", "categories", "transactions", "fees"} |->
        LET recs == CASE store = "products" -> prods
                      [] store = "categories" -> cats
                      [] store = "transactions" -> txns
                      [] OTHER -> feeStore
        IN  {<<r.id, IF "serverId" \in DOMAIN r THEN r.serverId ELSE None>> : r \in recs}]

(* the step is one of cycle c in its push phase *)
PushStep(c) ==
    /\ cycles[c].pc \in {"w_api", "w_getItem", "w_putItem"}
    /\ cycles'[c] # cycles[c]

(* C31: in the push phase, the step that writes back puts the record that  *)
(* was read with the serverId of the answer while the entry is still in    *)
(* the queue; an entry that a cycle removes was answered with success, and *)
(* if it is a CREATE_ entry whose record was there when the cycle read it, *)
(* its write-back came before; a step for an entry of another kind changes *)
(* no record's serverId.                                                   *)
WriteBackBeforeRemoval ==
    [][\A c \in CycleIds :
          PushStep(c) =>
             LET cy == cycles[c]
                 task == Task(cy)
                 removed == task \in sync_queue /\ task \notin sync_queue'
                 created == task.action \in {"CREATE_PRODUCT", "CREATE_CATEGORY",
                                             "CREATE_TRANSACTION", "CREATE_FEE"}
             IN  /\ cyc'.writtenBack # cyc.writtenBack =>
                       /\ task \in sync_queue'
                       /\ cy.serverId # None
                       /\ \E r \in (products' \cup categories' \cup transactions' \cup fees') :
                             r = [cy.item EXCEPT !.serverId = cy.serverId]
                 /\ removed =>
                       /\ task.id \in acked'
                       /\ (created /\ Exists(cy.item)) => task.id \in cyc.writtenBack
                 /\ ~created =>
                       ServerIdsOf(products', categories', transactions', fees')
                         = ServerIdsOf(products, categories, transactions, fees)]_vars

(* C31, its case: the sale's CREATE_TRANSACTION entry was pushed, its       *)
(* record carries the serverId and the entry is gone, while the            *)
(* UPDATE_PRODUCT entry behind it has been answered too                    *)
CreateEntryWrittenBackAndRemoved ==
    /\ 1 \in cyc.writtenBack
    /\ \E t \in transactions : t.id = 1 /\ t.serverId # None
    /\ ~\E e \in sync_queue : e.id = 1
    /\ 2 \in acked

---------------------------------------------------------------------------
(* C32: a step of updateCartItemQuantity that raises the quantity of a     *)
(* line item leaves it at no more than the stock of the product, and every *)
(* line item of the cart it leaves has a quantity of at least one; a       *)
(* change that would exceed the product's stock leaves the cart unchanged. *)
QuantityWithinProductStock ==
    [][(addOp' = addOp /\ cart' # cart) =>
          \A j \in 1..Len(cart'.items) :
             LET line == cart'.items[j]
             IN  /\ line.quantity >= 1
                 /\ \A i \in 1..Len(cart.items) :
                       (cart.items[i].id = line.id
                        /\ line.quantity > cart.items[i].quantity)
                       => line.quantity <= Lookup(products, line.id).stock]_vars

---------------------------------------------------------------------------
(* the keys of the records of a store whose serverId a marker names *)
Marked(store, deleted) ==
    {r.id : r \in {q \in store : \E i \in 1..Len(deleted) : deleted[i] = q.serverId}}

(* the delta without its deletion markers *)
Unmarked(delta) == [delta EXCEPT !.deleted = NoUpdates.deleted]

Resolved(store, deleted) ==
    LET map == ServerIdMap(GetAll(store))
    IN  {map[deleted[i]].id : i \in {j \in 1..Len(deleted) : deleted[j] \in DOMAIN map}}

---------------------------------------------------------------------------
(* C34: the open of a database of stored version v at version N runs the   *)
(* migration steps of the versions above v up to N and no other, each      *)
(* once and in ascending order; every object store and index that the      *)
(* database had is kept as it was defined, not created again; and the      *)
(* records that the steps write are written while the upgrade transaction  *)
(* runs.                                                                   *)
MigrationStepsInOrder ==
    [][/\ (upgrade.pc = "closed" /\ upgrade'.pc = "upgrading") =>
             LET steps == upgrade'.steps
             IN  /\ {steps[i] : i \in 1..Len(steps)}
                       = {k \in 2..SchemaVersion : k > oldVersion}
                 /\ \A i, j \in 1..Len(steps) : i < j => steps[i] < steps[j]
                 /\ upgrade.schema.objectStores \subseteq upgrade'.schema.objectStores
                 /\ \A index \in upgrade.schema.indexes :
                       /\ index \in upgrade'.schema.indexes
                       /\ index \in upgrade.schema.unique
                            <=> index \in upgrade'.schema.unique
       /\ (categories' # categories \/ fees' # fees \/ settings' # settings)
             => upgrade.pc = "upgrading"]_vars

---------------------------------------------------------------------------
(* What a merge that applied every request of the delta leaves: the        *)
(* records the serverId map resolved are updated by last-writer-wins or,   *)
(* when marked, deleted; every remote record no local one matched is a     *)
(* new record under a fresh key                                            *)
MergeApplied(kind, before, after, recs, deleted) ==
    /\ LastWriterWins(kind, before, after, recs, deleted)
    /\ \A l \in MatchedLocals(before) :
          (\E i \in 1..Len(deleted) : deleted[i] = l.serverId) => ~Has(after, l.id)
    /\ \A i \in 1..Len(recs) :
          (\A l \in MatchedLocals(before) : l.serverId # recs[i].serverId) =>
              \E r \in after :
                  /\ ~Has(before, r.id)
                  /\ r = RemoteValues(kind, r, recs[i])

(* C35: the writes of one pull are applied as a whole or not at all: after *)
(* a merge that went through, every update, insert and deletion of the     *)
(* delta is in products and categories; after a merge that failed, both    *)
(* stores are as they were before the pull.  Checked under SpecMerge.      *)
MergeAllOrNothing ==
    mergeRun.runs = 1 =>
        IF mergeRun.aborted
        THEN /\ products = mergeRun.before.products
             /\ categories = mergeRun.before.categories
        ELSE /\ MergeApplied("products", mergeRun.before.products, products,
                             mergeRun.delta.products, mergeRun.delta.deleted.products)
             /\ MergeApplied("categories", mergeRun.before.categories, categories,
                             mergeRun.delta.categories, mergeRun.delta.deleted.categories)

(* C35, its case: the merge failed at its second record, the first record  *)
(* alone would have changed the products, and they are as before the pull  *)
FailedMergeRolledBack ==
    /\ mergeRun.runs = 1
    /\ mergeRun.aborted
    /\ Len(mergeRun.delta.products) = 2
    /\ products = mergeRun.before.products
    /\ LET first == Merge(products, categories, keyGen,
                          GetAll(products), GetAll(categories),
                          [mergeRun.delta EXCEPT !.products = <<mergeRun.delta.products[1]>>])
       IN  first.ok /\ first.products # products

---------------------------------------------------------------------------
(* The arithmetic of the script's numbers: IEEE 754 binary64, rounding to  *)
(* nearest, ties to even.  A number is (-1)^neg * m * 2^e with a           *)
(* significand m of exactly Precision bits, or zero.  The significand is a *)
(* natural number written in limbs of 14 bits, the lowest limb first.      *)
(* Amounts of money are far from the ends of the exponent range, which is  *)
(* left out.                                                               *)

Precision == 53

LimbBase == 2^14

(* F applied to the value of v, and to the values of v and w: the value is *)
(* computed once, before F uses it                                         *)
Strict(v, F(_)) == CHOOSE r \in {F(x) : x \in {v}} : TRUE

Strict2(v, w, F(_, _)) == CHOOSE r \in {F(x, y) : x \in {v}, y \in {w}} : TRUE

RECURSIVE Limbs(_)
Limbs(n) == IF n = 0 THEN <<>> ELSE <<n % LimbBase>> \o Limbs(n \div LimbBase)

(* a without its leading zero limbs *)
NatTrim(a) ==
    Strict(a, LAMBDA x :
        SubSeq(x, 1, IF \E i \in 1..Len(x) : x[i] # 0
                     THEN CHOOSE i \in 1..Len(x) :
                             x[i] # 0 /\ \A j \in (i + 1)..Len(x) : x[j] = 0
                     ELSE 0))

Limb(a, i) == IF i <= Len(a) THEN a[i] ELSE 0

RECURSIVE AddCarry(_, _, _, _)
AddCarry(a, b, i, carry) ==
    IF i > Len(a) /\ i > Len(b)
    THEN IF carry = 0 THEN <<>> ELSE <<carry>>
    ELSE LET x == Limb(a, i) + Limb(b, i) + carry
         IN  <<x % LimbBase>> \o AddCarry(a, b, i + 1, x \div LimbBase)

NatAdd(a, b) == Strict2(a, b, LAMBDA x, y : AddCarry(x, y, 1, 0))

RECURSIVE SubBorrow(_, _, _, _)
SubBorrow(a, b, i, borrow) ==
    IF i > Len(a) THEN <<>>
    ELSE LET x == Limb(a, i) - Limb(b, i) - borrow
         IN  <<IF x < 0 THEN x + LimbBase ELSE x>>
                \o SubBorrow(a, b, i + 1, IF x < 0 THEN 1 ELSE 0)

(* a - b for a >= b *)
NatSub(a, b) == Strict2(a, b, LAMBDA x, y : NatTrim(SubBorrow(x, y, 1, 0)))

NatLess(a, b) ==
    Strict2(a, b, LAMBDA x, y :
        IF Len(x) # Len(y) THEN Len(x) < Len(y)
        ELSE \E i \in 1..Len(x) : x[i] < y[i] /\ \A j \in (i + 1)..Len(x) : x[j] = y[j])

RECURSIVE ScaleCarry(_, _, _, _)
ScaleCarry(a, k, i, carry) ==
    IF i > Len(a)
    THEN IF carry = 0 THEN <<>> ELSE <<carry>>
    ELSE LET x == a[i] * k + carry
         IN  <<x % LimbBase>> \o ScaleCarry(a, k, i + 1, x \div LimbBase)

(* a * k for k below LimbBase *)
NatScale(a, k) == Strict2(a, k, LAMBDA x, n : NatTrim(ScaleCarry(x, n, 1, 0)))

ShiftLimbs(a, n) ==
    Strict2(a, n, LAMBDA x, k : IF x = <<>> THEN <<>> ELSE [i \in 1..k |-> 0] \o x)

RECURSIVE NatMul(_, _)
NatMul(a, b) ==
    Strict2(a, b, LAMBDA x, y :
        IF y = <<>> THEN <<>>
        ELSE NatAdd(NatScale(x, Head(y)), ShiftLimbs(NatMul(x, Tail(y)), 1)))

RECURSIVE DivFrom(_, _, _, _)
DivFrom(a, n, i, rem) ==
    IF i = 0 THEN <<>>
    ELSE LET x == rem * LimbBase + a[i]
         IN  DivFrom(a, n, i - 1, x % n) \o <<x \div n>>

(* the quotient of a by n, for n below LimbBase *)
NatDiv(a, n) == Strict2(a, n, LAMBDA x, d : NatTrim(DivFrom(x, d, Len(x), 0)))

NatShl(a, k) ==
    Strict2(a, k, LAMBDA x, n : NatScale(ShiftLimbs(x, n \div 14), 2^(n % 14)))

NatShr(a, k) ==
    Strict2(a, k, LAMBDA x, n : NatDiv(SubSeq(x, (n \div 14) + 1, Len(x)), 2^(n % 14)))

RECURSIVE SmallBits(_)
SmallBits(n) == IF n = 0 THEN 0 ELSE 1 + SmallBits(n \div 2)

BitLength(a) ==
    Strict(a, LAMBDA x : IF x = <<>> THEN 0 ELSE 14 * (Len(x) - 1) + SmallBits(x[Len(x)]))

Zero == [neg |-> FALSE, m |-> <<>>, e |-> 0]

(* q, the first Precision bits of m, or the next significand: up when the  *)
(* k bits cut off are more than half a unit of q, or half a unit and       *)
(* something is behind them or q is odd                                    *)
RoundedUp(m, q, k, sticky) ==
    Strict2(NatSub(m, NatShl(q, k)), NatShl(<<1>>, k - 1), LAMBDA rest, half :
        IF \/ NatLess(half, rest)
           \/ rest = half /\ (sticky \/ q[1] % 2 = 1)
        THEN NatAdd(q, <<1>>)
        ELSE q)

(* The number nearest to m * 2^e, or to a value just above it when sticky; *)
(* a tie goes to the even significand                                      *)
RoundToPrecision(neg, m, e, sticky) ==
    Strict2(m, BitLength(m), LAMBDA x, len :
        IF x = <<>> THEN Zero
        ELSE IF len <= Precision
        THEN [neg |-> neg, m |-> NatShl(x, Precision - len), e |-> e - (Precision - len)]
        ELSE Strict(RoundedUp(x, NatShr(x, len - Precision), len - Precision, sticky),
                    LAMBDA r :
                       IF BitLength(r) > Precision
                       THEN [neg |-> neg, m |-> NatShr(r, 1), e |-> e + (len - Precision) + 1]
                       ELSE [neg |-> neg, m |-> r, e |-> e + (len - Precision)]))

(* the number of a natural number literal or input *)
Number(n) == RoundToPrecision(FALSE, Limbs(n), 0, FALSE)

(* x * y *)
Times(x, y) ==
    Strict2(x, y, LAMBDA a, b :
        RoundToPrecision(a.neg # b.neg, NatMul(a.m, b.m), a.e + b.e, FALSE))

Lesser(i, j) == IF i < j THEN i ELSE j

(* x + y, of two numbers that are not negative *)
Plus(x, y) ==
    Strict2(x, y, LAMBDA a, b :
        RoundToPrecision(FALSE,
                         NatAdd(NatShl(a.m, a.e - Lesser(a.e, b.e)),
                                NatShl(b.m, b.e - Lesser(a.e, b.e))),
                         Lesser(a.e, b.e), FALSE))

(* x - y, of two numbers that are not negative *)
Minus(x, y) ==
    Strict2(x, y, LAMBDA a, b :
        Strict2(NatShl(a.m, a.e - Lesser(a.e, b.e)), NatShl(b.m, b.e - Lesser(a.e, b.e)),
                LAMBDA u, v :
                   IF NatLess(u, v)
                   THEN RoundToPrecision(TRUE, NatSub(v, u), Lesser(a.e, b.e), FALSE)
                   ELSE RoundToPrecision(FALSE, NatSub(u, v), Lesser(a.e, b.e), FALSE)))

(* x / n, for a natural number n below 2^13 *)
DividedBy(x, n) ==
    Strict(x, LAMBDA a :
        Strict(NatDiv(NatShl(a.m, 14), n), LAMBDA q :
            Strict(NatScale(q, n) # NatShl(a.m, 14), LAMBDA sticky :
                RoundToPrecision(a.neg, q, a.e - 14, sticky))))

RECURSIVE SumLeft(_, _)
SumLeft(s, acc) ==
    Strict2(s, acc, LAMBDA seq, sum :
        IF seq = <<>> THEN sum ELSE SumLeft(Tail(seq), Plus(sum, Head(seq))))

---------------------------------------------------------------------------
(* The amounts of the payment dialog and of completeTransaction in the     *)
(* arithmetic of the script's numbers                                      *)

(* addToCart: product.price * (1 - product.discountPercentage / 100) *)
EffectivePriceNumber(product) ==
    IF product.discountPercentage > 0
    THEN Times(Number(product.price),
               Minus(Number(1), DividedBy(Number(product.discountPercentage), 100)))
    ELSE Number(product.price)

(* the cart line addToCart pushes for a product, tapped quantity times *)
LineItemNumber(product, quantity) ==
    [LineItem(product) EXCEPT !.effectivePrice = EffectivePriceNumber(product),
                              !.quantity = quantity]

(* the fee loop: fee.type === 'percentage' ? base * (fee.value / 100) :   *)
(* fee.value, for every fee of the cart                                    *)
FeeAmountNumbers(c, base) ==
    Strict(base, LAMBDA b :
        [i \in 1..Len(c.fees) |->
            IF c.fees[i].type = "percentage"
            THEN Times(b, DividedBy(Number(c.fees[i].value), 100))
            ELSE Number(c.fees[i].value)])

(* finalTotal of showPaymentModal and total of the cash field's listener *)
PaymentTotal(c) ==
    Strict(SumLeft([i \in 1..Len(c.items) |->
                       Times(c.items[i].effectivePrice, Number(c.items[i].quantity))],
                   Zero),
           LAMBDA subtotal : Plus(subtotal, SumLeft(FeeAmountNumbers(c, subtotal), Zero)))

(* subtotal and totalDiscount of completeTransaction *)
TxSubtotalNumber(c) ==
    SumLeft([i \in 1..Len(c.items) |->
                Times(Number(c.items[i].price), Number(c.items[i].quantity))],
            Zero)

TxTotalDiscountNumber(c) ==
    SumLeft([i \in 1..Len(c.items) |->
                Times(Times(Number(c.items[i].price),
                            DividedBy(Number(c.items[i].discountPercentage), 100)),
                      Number(c.items[i].quantity))],
            Zero)

(* The transaction object of completeTransaction *)
BuildTransactionNumber(c, cashPaid, date) ==
    Strict2(TxSubtotalNumber(c), TxTotalDiscountNumber(c), LAMBDA subtotal, totalDiscount :
        Strict(FeeAmountNumbers(c, Minus(subtotal, totalDiscount)), LAMBDA amounts :
            Strict(Plus(Minus(subtotal, totalDiscount), SumLeft(amounts, Zero)), LAMBDA total :
                [id |-> None,
                 items |-> [i \in 1..Len(c.items) |->
                              [id |-> c.items[i].id, quantity |-> c.items[i].quantity,
                               price |-> c.items[i].price,
                               effectivePrice |-> c.items[i].effectivePrice,
                               discountPercentage |-> c.items[i].discountPercentage]],
                 subtotal |-> subtotal,
                 totalDiscount |-> totalDiscount,
                 fees |-> [i \in 1..Len(c.fees) |->
                             [id |-> c.fees[i].id, type |-> c.fees[i].type,
                              value |-> c.fees[i].value,
                              isDefault |-> c.fees[i].isDefault,
                              amount |-> amounts[i]]],
                 total |-> total,
                 cashPaid |-> Number(cashPaid),
                 change |-> Minus(Number(cashPaid), total),
                 date |-> date,
                 serverId |-> None])))

(* showPaymentModal *)
showPaymentModalNumber ==
    /\ ~paymentModal.open
    /\ checkout.pc = "idle"
    /\ cart.items # <<>>
    /\ paymentModal' = [paymentModal EXCEPT !.open = TRUE, !.cash = 0,
                                            !.total = PaymentTotal(cart)]
    /\ UNCHANGED <<stores, memory, handlers, history, mergeRun, pageOps>>

(* the cash field's input listener: change = cashPaid - total, and the     *)
(* button is enabled if change >= 0                                        *)
cashPaidInputNumber(cashPaid) ==
    /\ paymentModal.open
    /\ checkout.pc = "idle"
    /\ \E total \in {PaymentTotal(cart)} :
          paymentModal' = [paymentModal EXCEPT
                              !.cash = cashPaid,
                              !.total = total,
                              !.disabled = Minus(Number(cashPaid), total).neg]
    /\ UNCHANGED <<stores, memory, handlers, history, mergeRun, pageOps>>

(* a click on the enabled complete button: completeTransaction up to the   *)
(* put of the transaction                                                  *)
completeTransactionNumber ==
    /\ paymentModal.open
    /\ ~paymentModal.disabled
    /\ checkout.pc = "idle"
    /\ keyGen.transactions < MaxTransactions
    /\ keyGen.sync_queue + Len(cart.items) < MaxQueueKey
    /\ \E transaction \in {[BuildTransactionNumber(cart, paymentModal.cash, now)
                               EXCEPT !.id = keyGen.transactions + 1]} :
          /\ transactions' = Put(transactions, transaction)
          /\ keyGen' = [keyGen EXCEPT !.transactions = transaction.id]
          /\ checkout' = [IdleCheckout EXCEPT !.pc = "w_putTx", !.txn = transaction,
                                              !.displayTotal = PaymentTotal(cart),
                                              !.cartBefore = cart,
                                              !.queuedBefore = keyGen.sync_queue]
    /\ paymentModal' = [paymentModal EXCEPT !.disabled = TRUE]
    /\ UNCHANGED <<products, categories, fees, sync_queue, lastSync, memory, addOp,
                   stockOp, feeOp, cycles, dataOp, history,
                   mergeRun, pageOps>>

(* The cashier page with a cart already filled: Kopi at a price of 500 or  *)
(* 10000 with no discount, 10 or 18 percent off, once or twice, alone or   *)
(* with one Roti; no fee, the fee of 10 percent, or both fees.  The        *)
(* payment dialog is closed and its button disabled.                       *)
InitAmounts ==
    \E price \in {500, 10000}, disc \in {0, 10, 18}, quantity \in 1..2,
       roti \in BOOLEAN, feeIds \in {{}, {1}, {1, 2}} :
        LET kopi == Product(1, "Kopi", price, disc, 2, None, 101, 1)
            other == Product(2, "Roti", 20000, 0, 1, None, 102, 1)
        IN  /\ products = {kopi, other}
            /\ cart = [items |-> <<LineItemNumber(kopi, quantity)>>
                                   \o (IF roti THEN <<LineItemNumber(other, 1)>> ELSE <<>>),
                       fees |-> SelectSeq(GetAll(InitFees), LAMBDA f : f.id \in feeIds)]
    /\ categories = InitCategories
    /\ transactions = {}
    /\ fees = InitFees
    /\ sync_queue = {}
    /\ lastSync = 1
    /\ keyGen = [products |-> 2, categories |-> 3, transactions |-> 0,
                 fees |-> 2, sync_queue |-> 0]
    /\ isOnline = FALSE
    /\ isSyncing = FALSE
    /\ now = 2
    /\ mockServerData = MockServerData(2)
    /\ addOp = IdleAdd
    /\ checkout = IdleCheckout
    /\ paymentModal = [open |-> FALSE, disabled |-> TRUE, cash |-> 0, total |-> Zero]
    /\ deleteOp = IdleDeleteOp
    /\ feeEdit = IdleFeeEdit
    /\ addOp2 = IdleAdd
    /\ clearOp = IdleFeeOp
    /\ catalogOp = IdleCatalog
    /\ settings = {}
    /\ oldVersion = SchemaVersion
    /\ upgrade = PageLoaded
    /\ stockOp = IdleStockOp
    /\ feeOp = IdleFeeOp
    /\ cycles = [c \in CycleIds |-> IdleCycle]
    /\ dataOp = IdleDataOp
    /\ cyc = NewCyc
    /\ acked = {}
    /\ mergeRun = NoMergeRun

NextAmounts ==
    \/ showPaymentModalNumber
    \/ closePaymentModal
    \/ \E cashPaid \in {410, 100000} : cashPaidInputNumber(cashPaid)
    \/ completeTransactionNumber
    \/ checkoutQueueTransaction
    \/ checkoutNextItem
    \/ checkoutPutStock
    \/ checkoutQueueStock

SpecAmounts == InitAmounts /\ [][NextAmounts]_vars

(* C36: the total that the payment dialog computed for the cart, and       *)
(* against which the cash field's listener validated the cash tendered,    *)
(* is the total of the Transaction that completeTransaction persists.      *)
(* Checked under SpecAmounts.                                              *)
PersistedTotalIsValidatedTotal ==
    \A t \in transactions : t.total = paymentModal.total

---------------------------------------------------------------------------
(* The cashier fills one cart and pays; a put of the stock loop may be     *)
(* rejected, which ends completeTransaction in its catch with the button   *)
(* enabled again and the cart as it was, and the cashier clicks again.     *)

(* a click on the complete button of the payment dialog, the first one or  *)
(* one after an attempt that failed                                        *)
completeTransactionButtonAgain ==
    /\ paymentModal.open
    /\ ~paymentModal.disabled
    /\ completeTransactionUpTo(MaxTransactions + 1, paymentModal.cash)

NextRetry ==
    \/ \E pid \in ProductKeys :
          transactions = {} /\ ~paymentModal.open /\ addToCart(pid)
    \/ addToCartResume
    \/ showPaymentModal
    \/ \E cashPaid \in CashInputs : cashPaidInput(cashPaid)
    \/ completeTransactionButtonAgain
    \/ checkoutQueueTransaction
    \/ checkoutNextItem
    \/ checkoutPutStock
    \/ checkoutQueueStock
    \/ startNewTransaction
    \/ feeOpResume

SpecRetry == InitOffline /\ [][NextRetry]_vars

QuantitySold(t, pid) ==
    SumSeq([i \in 1..Len(t.items) |->
               IF t.items[i].id = pid THEN t.items[i].quantity ELSE 0])

(* C37: the one cart of the session is committed at most once: at most one *)
(* Transaction is persisted, it has items and its total is its subtotal    *)
(* less its discount plus its fee amounts, and the stock of each product   *)
(* is lowered by no more than the quantity sold.  Checked under SpecRetry.  *)
CartCommittedOnce ==
    /\ Cardinality(transactions) <= 1
    /\ \A t \in transactions :
          /\ t.items # <<>>
          /\ t.total = (t.subtotal - t.totalDiscount) + FeeAmounts(t.fees)
    /\ \A p \in products, q \in InitProducts :
          p.id = q.id =>
              /\ transactions = {} => p.stock = q.stock
              /\ \A t \in transactions : q.stock - p.stock <= QuantitySold(t, p.id)

---------------------------------------------------------------------------
(* A product is added offline, its stock is changed from the products     *)
(* page, and the device goes online: the CREATE_PRODUCT entry is pushed    *)
(* and the serverId is written back while the stock buttons are used       *)
NextWriteBack ==
    \/ addProduct(None, "Lainnya")
    \/ catalogQueue("addProduct")
    \/ catalogDone("addProduct")
    \/ \E kind \in {"increase", "decrease"}, pid \in ProductKeys \ {1, 2} :
          adjustStock(kind, pid)
    \/ adjustStockPut
    \/ adjustStockQueue
    \/ adjustStockDone
    \/ checkOnlineStatus(TRUE)
    \/ \E c \in CycleIds : syncReadQueue(c)
    \/ \E c \in CycleIds : syncApiResponse(c, TRUE)
    \/ \E c \in CycleIds : syncWriteBack(c)
    \/ \E c \in CycleIds : syncRemoveTask(c)
    \/ \E c \in CycleIds : syncFetch(c)
    \/ \E c \in CycleIds : syncFetched(c)
    \/ \E c \in CycleIds : syncLocalProducts(c)
    \/ \E c \in CycleIds : syncMerge(c)
    \/ \E c \in CycleIds : syncDone(c)

SpecWriteBack == InitOffline /\ [][NextWriteBack]_vars

(* the put of the write-back of cycle c on the products store *)
ProductWriteBack(c) ==
    /\ cycles[c].pc = "w_getItem"
    /\ cycles'[c].pc = "w_putItem"
    /\ StoreOf(Task(cycles[c]).action) = "products"

(* C38: the write-back of a server-assigned identity loses no local edit:  *)
(* the product record it leaves in the store is the record that was in the *)
(* store just before its put, edits committed since its read included,     *)
(* with the serverId set.  Checked under SpecWriteBack.                    *)
WriteBackKeepsLocalEdit ==
    [][\A c \in CycleIds :
          ProductWriteBack(c) =>
              \E p \in products :
                  /\ p.id = Task(cycles[c]).payloadId
                  /\ products' = Put(products, WithServerId(p, cycles[c].serverId))]_vars

---------------------------------------------------------------------------
(* The sync cycle with every trigger and with the remote API answering     *)
(* with success or failure.  A cycle advances the clock once, with its     *)
(* fetch, so that a trigger that can start a cycle is taken while the      *)
(* clock is below its bound.  The continuations of the cycle are run by the event loop once   *)
(* their timer or request is done: weak fairness of each step.  The        *)
(* triggers are not fair.                                                  *)
ClockLeft == now < MaxClock

NextCycles ==
    \/ \E kind \in {"increase", "decrease"}, pid \in ProductKeys : adjustStock(kind, pid)
    \/ adjustStockPut
    \/ adjustStockQueue
    \/ (isOnline => ClockLeft) /\ adjustStockDone
    \/ ClockLeft /\ syncManual
    \/ ClockLeft /\ syncTimer
    \/ \E online \in BOOLEAN : (online => ClockLeft) /\ checkOnlineStatus(online)
    \/ \E c \in CycleIds : syncReadQueue(c)
    \/ \E c \in CycleIds, success \in BOOLEAN : syncApiResponse(c, success)
    \/ \E c \in CycleIds : syncWriteBack(c)
    \/ \E c \in CycleIds : syncRemoveTask(c)
    \/ \E c \in CycleIds : syncFetch(c)
    \/ \E c \in CycleIds : syncFetched(c)
    \/ \E c \in CycleIds : syncLocalProducts(c)
    \/ \E c \in CycleIds : syncMerge(c)
    \/ \E c \in CycleIds : syncDone(c)

CycleStepsFair ==
    \A c \in CycleIds :
        /\ WF_vars(syncReadQueue(c))
        /\ WF_vars(\E success \in BOOLEAN : syncApiResponse(c, success))
        /\ WF_vars(syncWriteBack(c))
        /\ WF_vars(syncRemoveTask(c))
        /\ WF_vars(syncFetch(c))
        /\ WF_vars(syncFetched(c))
        /\ WF_vars(syncLocalProducts(c))
        /\ WF_vars(syncMerge(c))
        /\ WF_vars(syncDone(c))

SpecCycles == InitSync /\ [][NextCycles]_vars /\ CycleStepsFair

(* C39: every started sync cycle ends, after a success or after a failed   *)
(* step, with isSyncing false; isSyncing is true exactly while a cycle is  *)
(* running, so that once no cycle runs a trigger made online is not        *)
(* blocked.  Checked under SpecCycles.                                     *)
CycleEndsAndResetsFlag ==
    /\ [](isSyncing <=> Running # {})
    /\ [](Running = {} => ~SyncGuardBlocks(TRUE, isSyncing) /\ HasFreeCycle)
    /\ \A c \in CycleIds : (c \in Running) ~> (Running = {} /\ ~isSyncing)

(* a cycle whose push failed has ended and the flag is reset *)
FailedCycleEnded == cyc.pushFailed /\ Running = {} /\ ~isSyncing /\ sync_queue # {}

(* C40: the lastSync that a cycle records is not later than the instant    *)
(* at which its fetch read the server's data, so that a remote change made *)
(* after that instant has a timestamp above lastSync and is returned by    *)
(* the next pull.  Checked under SpecSync.                                 *)
LastSyncNotAfterFetch ==
    cyc.finalized => lastSync <= cyc.fetchedAt

===========================================================================
